---------------------------- MODULE Spec2Model ----------------------------
(***************************************************************************)
(* A model of the Convex backend of the chat application: the tables       *)
(* conversations, conversationMembers, messages and reactions, and the     *)
(* mutations and queries of convex/conversations, convex/messages and      *)
(* convex/reactions.  Every mutation is one transaction: its action models *)
(* the whole handler, and a thrown error leaves every table as it was.     *)
(***************************************************************************)
EXTENDS Integers, Sequences, FiniteSets, TLC

\* ------------------------------------------------------------------ bounds
NumUsers == 3
MaxConvs == 2
MaxMsgs == 2
MaxTime == 1
MaxInflight == 2
MaxReactions == 3

\* ------------------------------------------------------- program constants
\* sendMessage keeps the first 80 characters of the text in the snapshot.
SNAPSHOT_LEN == 80

Users == 1..NumUsers
ConvIds == 1..MaxConvs
MsgIds == 1..MaxMsgs

\* "no value": an optional field that is undefined, a query that found nothing.
None == 0
\* the outcome of a lookup whose .unique() met more than one row and threw.
Threw == -1

SP == " "
\* the one character U+2026 that ends a cut snapshot text
ELLIPSIS == "..."
DELETED_MARKER == <<"Message deleted">>
\* the null that listMessages returns as the text of a deleted message: no
\* stored text equals it (a text is a sequence of single characters)
NullText == <<"null">>

\* The texts sendMessage is called with: empty, blank, and padded with blanks.
Texts == { <<>>, <<SP>>, <<SP, "a", SP>> }
\* The texts editMessage is called with: blank, and padded with a blank.
EditTexts == { <<SP>>, <<"b", SP>> }
Emojis == { "up", "heart" }
\* The memberIds arrays createGroup is called with: empty, one id, two ids
\* (the same id twice included; the caller's own id may be among them).
MemberArgs ==
    { <<>> } \cup { <<a>> : a \in Users }
             \cup { <<p[1], p[2]>> : p \in { q \in Users \X Users : q[1] <= q[2] } }
\* The (name, memberIds) arguments of createGroup: every memberIds array with
\* a padded name, and a blank name with one member id.
GroupArgs == ({ <<SP, "g">> } \X MemberArgs) \cup ({ <<SP>> } \X { <<a>> : a \in Users })

VARIABLES
    now,            \* Date.now(), a logical clock
    conversations,  \* table conversations, in insertion order; _id = position
    members,        \* table conversationMembers, in insertion order
    messages,       \* table messages, in insertion order; _id = position
    reactions,      \* table reactions, in insertion order
    users,          \* table users, in insertion order; _id = position
    presence,       \* table presence, in insertion order
    typing,         \* table typing, in insertion order
    inflight,       \* getOrCreateConversation transactions that have read, not committed
    toggling,       \* toggleReaction transactions that have read, not committed
    heartbeats,     \* setPresence transactions that have read, not committed
    sending,        \* sendMessage transactions that have read, not committed
    typingHook,     \* the useTypingReporter hook of one client: its refs and timers
    presenceHook,   \* the usePresence hook of one client: its closure and timers
    response,       \* the last response of the Clerk webhook route
    returned,       \* per caller/other pair: the ids getOrCreateConversation returned
    outcome         \* the last call that ended: its name, and whether it returned (ok) or threw

vars == <<now, conversations, members, messages, reactions, users, presence, typing,
          inflight, toggling, heartbeats, sending, typingHook, presenceHook,
          response, returned, outcome>>

\* the client hooks and the webhook route, which no Convex function touches
hookVars == <<typingHook, presenceHook, response>>

\* the tables and transactions of the identity directory, presence and typing,
\* and the client hooks that drive them
presenceVars == <<users, presence, typing, heartbeats, hookVars>>

\* ----------------------------------------------------------------- helpers
RECURSIVE TrimLeft(_)
TrimLeft(s) == IF s # <<>> /\ Head(s) = SP THEN TrimLeft(Tail(s)) ELSE s

RECURSIVE TrimRight(_)
TrimRight(s) ==
    IF s # <<>> /\ s[Len(s)] = SP THEN TrimRight(SubSeq(s, 1, Len(s) - 1)) ELSE s

\* String.prototype.trim
Trim(s) == TrimRight(TrimLeft(s))

Range(s) == { s[i] : i \in DOMAIN s }

\* Array.prototype.includes
Includes(s, x) == x \in Range(s)

\* [a, b].sort() of two user ids
SortPair(a, b) == IF a <= b THEN <<a, b>> ELSE <<b, a>>

\* Array.from(new Set(s)): the first occurrence of each element, in order
RECURSIVE Dedupe(_)
Dedupe(s) ==
    IF s = <<>> THEN <<>>
    ELSE LET init == Dedupe(SubSeq(s, 1, Len(s) - 1))
             x == s[Len(s)]
         IN IF Includes(init, x) THEN init ELSE Append(init, x)

Min(S) == CHOOSE x \in S : \A y \in S : x <= y

\* ---------------------------------------------------- conversationMembers
\* .withIndex("by_user_conversation").unique(): the position of the row, or None
MembershipOf(u, c) ==
    LET hit == { i \in DOMAIN members :
                    members[i].userId = u /\ members[i].conversationId = c }
    IN IF hit = {} THEN None ELSE Min(hit)

NewMember(c, u, role) ==
    [conversationId |-> c, userId |-> u, unreadCount |-> 0,
     lastReadMessageId |-> None, role |-> role, joinedAt |-> now]

NewConversation(type, participantIds, name, createdBy) ==
    [type |-> type, participantIds |-> participantIds, name |-> name,
     createdBy |-> createdBy, lastMessageId |-> None, lastMessageText |-> <<>>,
     lastMessageTime |-> None, lastMessageSenderId |-> None]

\* ---------------------------------------------- getOrCreateConversation
\* Phase 1: the by_participants index, an exact match on the array, .unique()
ByParticipants(convs, participantIds) ==
    LET hit == { c \in DOMAIN convs : convs[c].participantIds = participantIds }
    IN IF hit = {} THEN None
       ELSE IF Cardinality(hit) = 1 THEN Min(hit)
       ELSE Threw

\* Phase 2: the scan of every dm for one that holds both users
ScanDms(convs, userId, otherUserId) ==
    LET hit == { c \in DOMAIN convs :
                    /\ convs[c].type = "dm"
                    /\ Len(convs[c].participantIds) = 2
                    /\ Includes(convs[c].participantIds, userId)
                    /\ Includes(convs[c].participantIds, otherUserId) }
    IN IF hit = {} THEN None ELSE Min(hit)

\* what the two lookups of the handler find in convs
DedupLookup(convs, userId, otherUserId) ==
    LET byIndex == ByParticipants(convs, SortPair(userId, otherUserId))
    IN IF byIndex # None THEN byIndex ELSE ScanDms(convs, userId, otherUserId)

\* A transaction that commits what it read when it began, with no check that
\* the rows it read are still the same.
TxnViewStale(call) == call.seen

\* What the committing transaction has read.  Convex runs a mutation as a
\* serializable transaction: when the rows it read have changed since it began,
\* the handler runs again on the current tables.
TxnView(call) ==
    LET current == DedupLookup(conversations, call.caller, call.other)
    IN IF call.seen = current THEN call.seen ELSE current

PairOf(a, b) == SortPair(a, b)
Pairs == { <<a, b>> : a, b \in Users } \cap { p \in Users \X Users : p[1] < p[2] }

\* the handler starts: it rejects a conversation with oneself, then reads the
\* conversations; the call has not ended yet
getOrCreateConversationBegin(userId, otherUserId) ==
    /\ UNCHANGED <<presenceVars, toggling, sending, now, conversations, members, messages, reactions, returned>>
    /\ IF userId = otherUserId
       THEN /\ outcome' = [op |-> "getOrCreateConversation", ok |-> FALSE]
            /\ UNCHANGED inflight
       ELSE /\ Cardinality(inflight) < MaxInflight
            /\ inflight' = inflight \cup
                  { [caller |-> userId, other |-> otherUserId,
                     seen |-> DedupLookup(conversations, userId, otherUserId)] }
            /\ UNCHANGED outcome

\* the handler's transaction commits (or throws)
getOrCreateConversationCommit(call) ==
    LET userId == call.caller
        otherUserId == call.other
        found == TxnView(call)
        conversationId == Len(conversations) + 1
    IN /\ inflight' = inflight \ {call}
       /\ UNCHANGED <<presenceVars, toggling, sending, now, messages, reactions>>
       /\ IF found = Threw
          THEN /\ outcome' = [op |-> "getOrCreateConversation", ok |-> FALSE]
               /\ UNCHANGED <<conversations, members, returned>>
          ELSE IF found # None
          THEN /\ outcome' = [op |-> "getOrCreateConversation", ok |-> TRUE]
               /\ returned' = [returned EXCEPT ![PairOf(userId, otherUserId)] = @ \cup {found}]
               /\ UNCHANGED <<conversations, members>>
          ELSE /\ Len(conversations) < MaxConvs
               /\ conversations' = Append(conversations,
                     NewConversation("dm", SortPair(userId, otherUserId), <<>>, None))
               /\ members' = members \o
                     << NewMember(conversationId, userId, "none"),
                        NewMember(conversationId, otherUserId, "none") >>
               /\ outcome' = [op |-> "getOrCreateConversation", ok |-> TRUE]
               /\ returned' = [returned EXCEPT
                                 ![PairOf(userId, otherUserId)] = @ \cup {conversationId}]

\* ------------------------------------------------------------ createGroup
\* A member list that keeps every id it is given, repeated or not.
AllMemberIdsRepeated(userId, memberIds) == <<userId>> \o memberIds

\* [userId, ...memberIds] without repetitions: the creator is always in it
AllMemberIds(userId, memberIds) == Dedupe(<<userId>> \o memberIds)

\* A group in which nobody is admin.
GroupRoleMember(memberId, userId) == "member"

\* the role of a member of a new group
GroupRole(memberId, userId) == IF memberId = userId THEN "admin" ELSE "member"

createGroup(userId, name, memberIds) ==
    LET trimmedName == Trim(name)
        allMemberIds == AllMemberIds(userId, memberIds)
        conversationId == Len(conversations) + 1
    IN /\ UNCHANGED <<presenceVars, toggling, sending, now, messages, reactions, inflight, returned>>
       /\ IF trimmedName = <<>> \/ Len(allMemberIds) < 2
          THEN /\ outcome' = [op |-> "createGroup", ok |-> FALSE]
               /\ UNCHANGED <<conversations, members>>
          ELSE /\ Len(conversations) < MaxConvs
               /\ conversations' = Append(conversations,
                     NewConversation("group", allMemberIds, trimmedName, userId))
               /\ members' = members \o
                     [i \in 1..Len(allMemberIds) |->
                        NewMember(conversationId, allMemberIds[i],
                                  GroupRole(allMemberIds[i], userId))]
               /\ outcome' = [op |-> "createGroup", ok |-> TRUE]

\* ------------------------------------------------------ leaveConversation
\* A leave that never hands the admin role on.
ShouldPromoteNever(role, remaining) == FALSE

\* whether the handler looks for a member to promote: the leaving user was
\* admin and the participant list is not empty
ShouldPromote(role, remaining) == role = "admin" /\ Len(remaining) > 0

\* A leave that does not delete the caller's membership row.
DeleteRowKept(rows, k) == rows

\* ctx.db.delete(membership._id): the table without the row at position k
DeleteRow(rows, k) ==
    [i \in 1..(Len(rows) - 1) |-> IF i < k THEN rows[i] ELSE rows[i + 1]]

\* A leave that is accepted for a conversation of any type.
CanLeaveAnyType(type) == TRUE

\* if (conversation.type !== "group") throw
CanLeave(type) == type = "group"

\* A leave that keeps the participant list as it is.
RemainingUnfiltered(participantIds, userId) == participantIds

\* conversation.participantIds.filter((id) => id !== userId)
Remaining(participantIds, userId) == SelectSeq(participantIds, LAMBDA id : id # userId)

leaveConversation(userId, conversationId) ==
    LET membership == MembershipOf(userId, conversationId)
    IN /\ UNCHANGED <<presenceVars, toggling, sending, now, messages, reactions, inflight, returned>>
       /\ IF \/ conversationId \notin DOMAIN conversations
             \/ ~CanLeave(conversations[conversationId].type)
             \/ membership = None
          THEN /\ outcome' = [op |-> "leaveConversation", ok |-> FALSE]
               /\ UNCHANGED <<conversations, members>>
          ELSE LET remaining == Remaining(conversations[conversationId].participantIds,
                                          userId)
                   kept == DeleteRow(members, membership)
                   rest == { i \in DOMAIN kept : kept[i].conversationId = conversationId }
                   promote == /\ ShouldPromote(members[membership].role, remaining)
                              /\ rest # {}
               IN /\ conversations' = [conversations EXCEPT
                        ![conversationId].participantIds = remaining]
                  /\ members' = IF promote
                                THEN [kept EXCEPT ![Min(rest)].role = "admin"]
                                ELSE kept
                  /\ outcome' = [op |-> "leaveConversation", ok |-> TRUE]

\* ------------------------------------------------------------ sendMessage
\* the snapshot text: the first SNAPSHOT_LEN characters and an ellipsis
SnapshotText(trimmed) ==
    IF Len(trimmed) > SNAPSHOT_LEN
    THEN SubSeq(trimmed, 1, SNAPSHOT_LEN) \o <<ELLIPSIS>>
    ELSE trimmed

NewMessage(conversationId, userId, trimmed, replyToId) ==
    [conversationId |-> conversationId, senderId |-> userId, text |-> trimmed,
     sentAt |-> now, replyToId |-> replyToId, deleted |-> FALSE, deletedAt |-> None,
     edited |-> FALSE, editedAt |-> None]

\* A fan-out that does not leave out the sender.
IncrementUnreadAll(conversationId, userId) ==
    [i \in DOMAIN members |->
        IF members[i].conversationId = conversationId
        THEN [members[i] EXCEPT !.unreadCount = @ + 1]
        ELSE members[i]]

\* the fan-out of sendMessage: one more unread message for every other member
IncrementUnread(conversationId, userId) ==
    [i \in DOMAIN members |->
        IF members[i].conversationId = conversationId /\ members[i].userId # userId
        THEN [members[i] EXCEPT !.unreadCount = @ + 1]
        ELSE members[i]]

\* A sendMessage that checks the text and not the membership.
SendAllowedNoMembership(userId, conversationId, text) == Trim(text) # <<>>

\* what sendMessage requires of its caller and its text
SendAllowed(userId, conversationId, text) ==
    /\ Trim(text) # <<>>
    /\ MembershipOf(userId, conversationId) # None

sendMessage(userId, conversationId, text, replyToId) ==
    LET trimmed == Trim(text)
        messageId == Len(messages) + 1
    IN /\ UNCHANGED <<presenceVars, toggling, sending, now, reactions, inflight, returned>>
       /\ IF ~SendAllowed(userId, conversationId, text)
          THEN /\ outcome' = [op |-> "sendMessage", ok |-> FALSE]
               /\ UNCHANGED <<conversations, members, messages>>
          ELSE /\ Len(messages) < MaxMsgs
               /\ messages' = Append(messages,
                     NewMessage(conversationId, userId, trimmed, replyToId))
               /\ conversations' = [conversations EXCEPT ![conversationId] =
                     [@ EXCEPT !.lastMessageId = messageId,
                               !.lastMessageText = SnapshotText(trimmed),
                               !.lastMessageTime = now,
                               !.lastMessageSenderId = userId]]
               /\ members' = IncrementUnread(conversationId, userId)
               /\ outcome' = [op |-> "sendMessage", ok |-> TRUE]

\* ------------------------------------------------ sendMessage, overlapping
\* the number that tells a new call from the calls in flight
CallNumber(calls) == Min({ n \in 1..(Cardinality(calls) + 1) : \A c \in calls : c.call # n })

\* what sendMessage reads of the conversationMembers table: the rows of the
\* conversation, by their positions
MemberRows(conversationId) ==
    [i \in { j \in DOMAIN members : members[j].conversationId = conversationId }
        |-> members[i]]

\* A transaction that commits what it read when it began, with no check that
\* the membership rows it read are still the same.
SendViewStale(call) == call.seen

\* What the committing sendMessage has read: the membership rows of the
\* conversation.  When they have changed since the handler began, Convex runs
\* the handler again on the current table.
SendView(call) ==
    LET current == MemberRows(call.conversationId)
    IN IF call.seen = current THEN call.seen ELSE current

\* the handler starts: it checks the text and the membership and reads the
\* rows of all members
sendMessageBegin(userId, conversationId, text) ==
    /\ UNCHANGED <<presenceVars, toggling, now, conversations, members, messages, reactions,
                   inflight, returned>>
    /\ IF ~SendAllowed(userId, conversationId, text)
       THEN /\ outcome' = [op |-> "sendMessage", ok |-> FALSE]
            /\ UNCHANGED sending
       ELSE /\ Cardinality(sending) < MaxInflight
            /\ sending' = sending \cup
                  { [call |-> CallNumber(sending), userId |-> userId,
                     conversationId |-> conversationId, text |-> text,
                     seen |-> MemberRows(conversationId)] }
            /\ UNCHANGED outcome

\* the handler's transaction commits: the message, the snapshot, and for
\* every other member the unreadCount that was read plus one
sendMessageCommit(call) ==
    LET rows == SendView(call)
        trimmed == Trim(call.text)
        messageId == Len(messages) + 1
    IN /\ UNCHANGED <<presenceVars, toggling, now, reactions, inflight, returned>>
       /\ sending' = sending \ {call}
       /\ Len(messages) < MaxMsgs
       /\ messages' = Append(messages,
             NewMessage(call.conversationId, call.userId, trimmed, None))
       /\ conversations' = [conversations EXCEPT ![call.conversationId] =
             [@ EXCEPT !.lastMessageId = messageId,
                       !.lastMessageText = SnapshotText(trimmed),
                       !.lastMessageTime = now,
                       !.lastMessageSenderId = call.userId]]
       /\ members' =
             [i \in DOMAIN members |->
                 IF i \in DOMAIN rows /\ rows[i].userId # call.userId
                 THEN [members[i] EXCEPT !.unreadCount = rows[i].unreadCount + 1]
                 ELSE members[i]]
       /\ outcome' = [op |-> "sendMessage", ok |-> TRUE]

\* ------------------------------------------------------------ editMessage
\* An editMessage that does not refuse a deleted message.
EditAllowedDeleted(userId, messageId, text) ==
    /\ messageId \in DOMAIN messages
    /\ messages[messageId].senderId = userId
    /\ Trim(text) # <<>>

\* what editMessage requires: the message exists, the caller sent it, it is
\* not deleted, and the new text is not blank
EditAllowed(userId, messageId, text) ==
    /\ messageId \in DOMAIN messages
    /\ messages[messageId].senderId = userId
    /\ ~messages[messageId].deleted
    /\ Trim(text) # <<>>

editMessage(userId, messageId, text) ==
    /\ UNCHANGED <<presenceVars, toggling, sending, now, conversations, members, reactions, inflight, returned>>
    /\ IF ~EditAllowed(userId, messageId, text)
       THEN /\ outcome' = [op |-> "editMessage", ok |-> FALSE]
            /\ UNCHANGED messages
       ELSE /\ messages' = [messages EXCEPT ![messageId] =
                  [@ EXCEPT !.text = Trim(text), !.edited = TRUE, !.editedAt = now]]
            /\ outcome' = [op |-> "editMessage", ok |-> TRUE]

\* ---------------------------------------------------------- deleteMessage
\* A deleteMessage that any user may call.
DeleteAllowedAnyone(userId, messageId) == messageId \in DOMAIN messages

\* what deleteMessage requires: the message exists and the caller sent it
DeleteAllowed(userId, messageId) ==
    /\ messageId \in DOMAIN messages
    /\ messages[messageId].senderId = userId

\* A test that takes no message for the last one of its conversation.
IsLastMessageNever(conversationId, messageId) == FALSE

\* A test that takes every message for the last one of its conversation.
IsLastMessageAlways(conversationId, messageId) ==
    conversationId \in DOMAIN conversations

\* conversation?.lastMessageId === messageId
IsLastMessage(conversationId, messageId) ==
    /\ conversationId \in DOMAIN conversations
    /\ conversations[conversationId].lastMessageId = messageId

deleteMessage(userId, messageId) ==
    /\ UNCHANGED <<presenceVars, toggling, sending, now, members, reactions, inflight, returned>>
    /\ IF ~DeleteAllowed(userId, messageId)
       THEN /\ outcome' = [op |-> "deleteMessage", ok |-> FALSE]
            /\ UNCHANGED <<messages, conversations>>
       ELSE LET conversationId == messages[messageId].conversationId
            IN /\ messages' = [messages EXCEPT ![messageId] =
                     [@ EXCEPT !.deleted = TRUE, !.deletedAt = now]]
               /\ conversations' =
                     IF IsLastMessage(conversationId, messageId)
                     THEN [conversations EXCEPT
                             ![conversationId].lastMessageText = DELETED_MARKER]
                     ELSE conversations
               /\ outcome' = [op |-> "deleteMessage", ok |-> TRUE]

\* --------------------------------------------------- markConversationRead
\* A patch that records the last read message and keeps the counter.
ReadPatchKeepCount(row, lastReadMessageId) ==
    [row EXCEPT !.lastReadMessageId =
                    IF lastReadMessageId # None THEN lastReadMessageId ELSE @]

\* the patch of the caller's membership row: the counter, and the last read
\* message when one is given
ReadPatch(row, lastReadMessageId) ==
    [row EXCEPT !.unreadCount = 0,
                !.lastReadMessageId =
                    IF lastReadMessageId # None THEN lastReadMessageId ELSE @]

markConversationRead(userId, conversationId, lastReadMessageId) ==
    LET membership == MembershipOf(userId, conversationId)
    IN /\ UNCHANGED <<presenceVars, toggling, sending, now, conversations, messages, reactions, inflight, returned>>
       /\ outcome' = [op |-> "markConversationRead", ok |-> TRUE]
       /\ members' = IF membership # None
                     THEN [members EXCEPT
                             ![membership] = ReadPatch(@, lastReadMessageId)]
                     ELSE members

\* ----------------------------------------------------------- listMessages
\* A projection that returns the stored row, deleted or not.
ProjectMessageRaw(messageId) ==
    LET msg == messages[messageId]
    IN [_id |-> messageId, conversationId |-> msg.conversationId,
        senderId |-> msg.senderId, text |-> msg.text, sentAt |-> msg.sentAt,
        deleted |-> msg.deleted, deletedAt |-> msg.deletedAt, edited |-> msg.edited,
        editedAt |-> msg.editedAt, replyToId |-> msg.replyToId]

\* the row listMessages returns for a stored message
ProjectMessage(messageId) ==
    LET msg == messages[messageId]
    IN IF msg.deleted
       THEN [_id |-> messageId, conversationId |-> msg.conversationId,
             senderId |-> msg.senderId, text |-> NullText, sentAt |-> msg.sentAt,
             deleted |-> TRUE, deletedAt |-> msg.deletedAt, edited |-> FALSE,
             editedAt |-> None, replyToId |-> msg.replyToId]
       ELSE [_id |-> messageId, conversationId |-> msg.conversationId,
             senderId |-> msg.senderId, text |-> msg.text, sentAt |-> msg.sentAt,
             deleted |-> FALSE, deletedAt |-> None, edited |-> msg.edited,
             editedAt |-> msg.editedAt, replyToId |-> msg.replyToId]

\* the ids of the messages of a conversation, oldest first
RECURSIVE MessageIdsOf(_, _)
MessageIdsOf(conversationId, n) ==
    IF n = 0 THEN <<>>
    ELSE IF messages[n].conversationId = conversationId
         THEN Append(MessageIdsOf(conversationId, n - 1), n)
         ELSE MessageIdsOf(conversationId, n - 1)

listMessages(conversationId) ==
    LET ids == MessageIdsOf(conversationId, Len(messages))
    IN [i \in DOMAIN ids |-> ProjectMessage(ids[i])]

\* what listMessages returns to a caller: requireAuthUserId admits every
\* signed-in user and its result is not used, so the rows are those of the
\* conversation whoever asks
listMessagesAs(userId, conversationId) == listMessages(conversationId)

\* ---------------------------------------------------- getConversationMeta
\* the caller's read cursor: lastReadAt, which no mutation writes, else joinedAt
ReadCutoff(membership) == members[membership].joinedAt

getConversationMeta(userId, conversationId) ==
    LET membership == MembershipOf(userId, conversationId)
        mine == { m \in DOMAIN messages : messages[m].conversationId = conversationId }
    IN IF membership = None
       THEN [latestMessageSentAt |-> None, unreadCount |-> 0]
       ELSE [latestMessageSentAt |->
                IF mine = {} THEN None
                ELSE CHOOSE t \in { messages[m].sentAt : m \in mine } :
                        \A m \in mine : messages[m].sentAt <= t,
             unreadCount |->
                Cardinality({ m \in mine : messages[m].sentAt > ReadCutoff(membership) })]

\* --------------------------------------------------------- toggleReaction
\* .withIndex("by_message_user_emoji"): the positions of the caller's rows
ReactionRows(rows, messageId, userId, emoji) ==
    { i \in DOMAIN rows :
        /\ rows[i].messageId = messageId
        /\ rows[i].userId = userId
        /\ rows[i].emoji = emoji }

\* the table without the row at position k
RemoveAt(rows, k) ==
    [i \in 1..(Len(rows) - 1) |-> IF i < k THEN rows[i] ELSE rows[i + 1]]

\* A toggle that inserts a row whether or not the caller has one.
ToggleRowsAlwaysInsert(rows, messageId, userId, emoji, createdAt) ==
    Append(rows, [messageId |-> messageId, userId |-> userId,
                  emoji |-> emoji, createdAt |-> createdAt])

\* the reactions table after the toggle: the caller's row deleted when there
\* is one, inserted when there is none
ToggleRows(rows, messageId, userId, emoji, createdAt) ==
    LET existing == ReactionRows(rows, messageId, userId, emoji)
    IN IF existing # {}
       THEN RemoveAt(rows, Min(existing))
       ELSE Append(rows, [messageId |-> messageId, userId |-> userId,
                          emoji |-> emoji, createdAt |-> createdAt])

\* A toggleReaction that does not refuse a deleted message.
ToggleAllowedDeleted(userId, messageId, emoji) ==
    /\ messageId \in DOMAIN messages
    /\ Cardinality(ReactionRows(reactions, messageId, userId, emoji)) <= 1

\* what toggleReaction requires: the message exists and is not deleted, and
\* .unique() meets at most one row
ToggleAllowed(userId, messageId, emoji) ==
    /\ messageId \in DOMAIN messages
    /\ ~messages[messageId].deleted
    /\ Cardinality(ReactionRows(reactions, messageId, userId, emoji)) <= 1

toggleReaction(userId, messageId, emoji) ==
    /\ UNCHANGED <<presenceVars, toggling, sending, now, conversations, members, messages, inflight, returned>>
    /\ IF ~ToggleAllowed(userId, messageId, emoji)
       THEN /\ outcome' = [op |-> "toggleReaction", ok |-> FALSE]
            /\ UNCHANGED reactions
       ELSE /\ reactions' = ToggleRows(reactions, messageId, userId, emoji, now)
            /\ Len(reactions') <= MaxReactions
            /\ outcome' = [op |-> "toggleReaction", ok |-> TRUE]

\* ----------------------------------------------------------- getReactions
\* the groups in the order their emoji first appears among the rows
GroupsOf(rows, messageId, viewer) ==
    LET mine == SelectSeq(rows, LAMBDA r : r.messageId = messageId)
        emojis == Dedupe([i \in DOMAIN mine |-> mine[i].emoji])
    IN [k \in DOMAIN emojis |->
          LET of == SelectSeq(mine, LAMBDA r : r.emoji = emojis[k])
          IN [emoji |-> emojis[k],
              count |-> Len(of),
              userIds |-> [i \in DOMAIN of |-> of[i].userId],
              selfReacted |-> \E i \in DOMAIN of : of[i].userId = viewer]]

\* A query that returns the groups in the order of their first row.
SortByCountNot(s) == s

\* g put into the sequence s, sorted by descending count, after its equals
RECURSIVE InsertByCount(_, _)
InsertByCount(s, g) ==
    IF s = <<>> THEN <<g>>
    ELSE IF s[Len(s)].count >= g.count THEN Append(s, g)
    ELSE Append(InsertByCount(SubSeq(s, 1, Len(s) - 1), g), s[Len(s)])

\* Array.prototype.sort((a, b) => b.count - a.count): a stable sort
RECURSIVE SortByCount(_)
SortByCount(s) ==
    IF s = <<>> THEN <<>>
    ELSE InsertByCount(SortByCount(SubSeq(s, 1, Len(s) - 1)), s[Len(s)])

\* getReactions of the table rows, as the query computes it
ReactionsView(rows, messageId, viewer) == SortByCount(GroupsOf(rows, messageId, viewer))

getReactions(messageId, viewer) == ReactionsView(reactions, messageId, viewer)

\* --------------------------------------------- toggleReaction, overlapping

\* A transaction that commits what it read when it began, with no check that
\* the reaction rows it read are still the same.
ToggleViewStale(call) == call.seen

\* What the committing toggleReaction has read: the positions of the caller's
\* rows for the triple.  When they have changed since the handler began, Convex
\* runs the handler again on the current table.
ToggleView(call) ==
    LET current == ReactionRows(reactions, call.messageId, call.userId, call.emoji)
    IN IF call.seen = current THEN call.seen ELSE current

\* the handler starts: it reads the message, then the caller's reaction rows
toggleReactionBegin(userId, messageId, emoji) ==
    /\ UNCHANGED <<presenceVars, sending, now, conversations, members, messages, reactions,
                   inflight, returned>>
    /\ IF messageId \notin DOMAIN messages \/ messages[messageId].deleted
       THEN /\ outcome' = [op |-> "toggleReaction", ok |-> FALSE]
            /\ UNCHANGED toggling
       ELSE /\ Cardinality(toggling) < MaxInflight
            /\ toggling' = toggling \cup
                  { [call |-> CallNumber(toggling),
                     userId |-> userId, messageId |-> messageId, emoji |-> emoji,
                     seen |-> ReactionRows(reactions, messageId, userId, emoji)] }
            /\ UNCHANGED outcome

\* the handler's transaction commits (or throws)
toggleReactionCommit(call) ==
    LET existing == ToggleView(call)
    IN /\ UNCHANGED <<presenceVars, sending, now, conversations, members, messages,
                      inflight, returned>>
       /\ toggling' = toggling \ {call}
       /\ IF messages[call.messageId].deleted \/ Cardinality(existing) > 1
          THEN /\ outcome' = [op |-> "toggleReaction", ok |-> FALSE]
               /\ UNCHANGED reactions
          ELSE /\ reactions' =
                     IF existing # {}
                     THEN RemoveAt(reactions, Min(existing))
                     ELSE Append(reactions,
                             [messageId |-> call.messageId, userId |-> call.userId,
                              emoji |-> call.emoji, createdAt |-> now])
               /\ Len(reactions') <= MaxReactions
               /\ outcome' = [op |-> "toggleReaction", ok |-> TRUE]

\* ------------------------------------------------------ identity directory
\* getAuthUserId: the _id of the users row of the caller's Clerk identity;
\* None when the call carries no identity or no row has its clerkId
getAuthUserId(identity) ==
    LET hit == { i \in DOMAIN users : users[i].clerkId = identity }
    IN IF identity = None \/ hit = {} THEN None ELSE Min(hit)

\* what a query returns: it threw, or it returned rows (none for null)
Thrown == [ok |-> FALSE, rows |-> <<>>]
Returned(rows) == [ok |-> TRUE, rows |-> rows]

\* ---------------------------------------------------------------- presence
HEARTBEAT_INTERVAL_MS == 30000
PRESENCE_EXPIRY_MS == HEARTBEAT_INTERVAL_MS * 3

Statuses == { "online", "idle", "dnd", "offline" }

\* An expiry that starts when the heartbeat is exactly PRESENCE_EXPIRY_MS old.
getEffectiveStatusAtExpiry(status, lastSeenAt) ==
    IF status = "dnd" THEN "dnd"
    ELSE IF status = "offline" THEN "offline"
    ELSE IF now - lastSeenAt >= PRESENCE_EXPIRY_MS THEN "offline"
    ELSE IF status = "idle" THEN "idle"
    ELSE "online"

getEffectiveStatus(status, lastSeenAt) ==
    IF status = "dnd" THEN "dnd"
    ELSE IF status = "offline" THEN "offline"
    ELSE IF now - lastSeenAt > PRESENCE_EXPIRY_MS THEN "offline"
    ELSE IF status = "idle" THEN "idle"
    ELSE "online"

\* .withIndex("by_user").unique() on the rows of a presence table
PresenceOf(rows, userId) ==
    LET hit == { i \in DOMAIN rows : rows[i].userId = userId }
    IN IF hit = {} THEN None
       ELSE IF Cardinality(hit) = 1 THEN Min(hit)
       ELSE Threw

\* the presence row with its status replaced by the effective one
EffectiveRow(row) ==
    [row EXCEPT !.status = getEffectiveStatus(row.status, row.lastSeenAt)]

\* getPresence resolves no identity: any caller gets the row of any user
getPresence(userId) ==
    LET row == PresenceOf(presence, userId)
    IN IF row = Threw THEN Thrown
       ELSE IF row = None THEN Returned(<<>>)
       ELSE Returned(<< EffectiveRow(presence[row]) >>)

\* batchGetPresence resolves no identity either: one entry per requested id
\* that has a row
batchGetPresence(userIds) ==
    IF \E i \in DOMAIN userIds : PresenceOf(presence, userIds[i]) = Threw
    THEN Thrown
    ELSE LET found == SelectSeq(userIds, LAMBDA id : PresenceOf(presence, id) # None)
         IN Returned([i \in DOMAIN found |->
                        EffectiveRow(presence[PresenceOf(presence, found[i])])])

\* getMyPresence: null without a user row, else as getPresence
getMyPresence(identity) ==
    LET userId == getAuthUserId(identity)
    IN IF userId = None THEN Returned(<<>>) ELSE getPresence(userId)

\* getOnlineUsers: the userId of every row whose effective status is online
getOnlineUsers ==
    LET online == SelectSeq(presence,
                     LAMBDA r : getEffectiveStatus(r.status, r.lastSeenAt) = "online")
    IN Returned([i \in DOMAIN online |-> online[i].userId])

\* A transaction that commits what it read when it began, with no check that
\* the presence row it read is still the same.
HeartbeatViewStale(call) == call.seen

\* What the committing setPresence has read: the caller's presence row.  When
\* it has changed since the handler began, the handler runs again.
HeartbeatView(call) ==
    LET current == PresenceOf(presence, call.userId)
    IN IF call.seen = current THEN call.seen ELSE current

\* the presence table after setPresence has patched the row it found, or
\* inserted one when it found none
PresenceWrite(existing, userId, status) ==
    IF existing # None
    THEN [presence EXCEPT ![existing] = [@ EXCEPT !.status = status, !.lastSeenAt = now]]
    ELSE Append(presence, [userId |-> userId, status |-> status, lastSeenAt |-> now])

\* the handler starts: without a user row it returns at once, else it reads
\* the caller's presence row
setPresenceBegin(identity, status) ==
    LET userId == getAuthUserId(identity)
    IN /\ UNCHANGED <<hookVars, sending, now, conversations, members, messages, reactions, users, presence,
                      typing, inflight, toggling, returned>>
       /\ IF userId = None
          THEN /\ outcome' = [op |-> "setPresence", ok |-> TRUE]
               /\ UNCHANGED heartbeats
          ELSE /\ Cardinality(heartbeats) < MaxInflight
               /\ heartbeats' = heartbeats \cup
                     { [call |-> CallNumber(heartbeats),
                        userId |-> userId, status |-> status,
                        seen |-> PresenceOf(presence, userId)] }
               /\ UNCHANGED outcome

\* the handler's transaction commits (or throws)
setPresenceCommit(call) ==
    LET existing == HeartbeatView(call)
    IN /\ UNCHANGED <<hookVars, sending, now, conversations, members, messages, reactions, users,
                      typing, inflight, toggling, returned>>
       /\ heartbeats' = heartbeats \ {call}
       /\ IF existing = Threw
          THEN /\ outcome' = [op |-> "setPresence", ok |-> FALSE]
               /\ UNCHANGED presence
          ELSE /\ presence' = PresenceWrite(existing, call.userId, call.status)
               /\ outcome' = [op |-> "setPresence", ok |-> TRUE]

\* the whole handler as one transaction with no other transaction in between
setPresence(identity, status) ==
    IF getAuthUserId(identity) = None
    THEN setPresenceBegin(identity, status)
    ELSE /\ setPresenceCommit(
               [call |-> CallNumber(heartbeats),
                userId |-> getAuthUserId(identity), status |-> status,
                seen |-> PresenceOf(presence, getAuthUserId(identity))])

\* ------------------------------------------------------ the usePresence hook
\* The hook of user 1 in one tab. A timer is the instant at which it is due,
\* None when it is not armed; a mutation the hook sends is applied at the
\* instant it is sent.
PresenceClient == 1
IDLE_AFTER_MS == 120000

\* set(status): setPresenceRef.current({ status })
set(status) ==
    /\ presence' = PresenceWrite(PresenceOf(presence, PresenceClient), PresenceClient, status)
    /\ outcome' = [op |-> "setPresence", ok |-> TRUE]

\* what a step of the presence hook leaves alone
presenceHookFrame == <<now, conversations, members, messages, reactions, users, typing,
                       inflight, toggling, heartbeats, sending, typingHook, response,
                       returned>>

\* startHeartbeat: the interval is restarted
startHeartbeat == now + HEARTBEAT_INTERVAL_MS

\* the effect runs: set("online"); resetIdleTimer(); startHeartbeat()
usePresenceMount ==
    /\ ~presenceHook.mounted
    /\ presenceHook' = [presenceHook EXCEPT !.mounted = TRUE,
                                            !.currentStatus = "online",
                                            !.idleTimer = now + IDLE_AFTER_MS,
                                            !.heartbeatTimer = startHeartbeat]
    /\ set("online")
    /\ UNCHANGED presenceHookFrame

\* resetIdleTimer, the listener of the activity events of the visible page:
\* back online when idle, and the idle timer is restarted
resetIdleTimer ==
    /\ presenceHook.mounted
    /\ ~presenceHook.hidden
    /\ presenceHook' = [presenceHook EXCEPT !.currentStatus = "online",
                                            !.idleTimer = now + IDLE_AFTER_MS]
    /\ IF presenceHook.currentStatus = "idle"
       THEN set("online")
       ELSE UNCHANGED <<presence, outcome>>
    /\ UNCHANGED presenceHookFrame

\* the idle timer is due: the callback of setTimeout(..., IDLE_AFTER_MS)
idleTimerFires ==
    /\ presenceHook.idleTimer # None
    /\ presenceHook.idleTimer <= now
    /\ presenceHook' = [presenceHook EXCEPT !.currentStatus = "idle", !.idleTimer = None]
    /\ set("idle")
    /\ UNCHANGED presenceHookFrame

\* the condition of the heartbeat: the tab is visible and the user is active
ShouldBeat(hook) == ~hook.hidden /\ hook.currentStatus = "online"

\* the heartbeat is due: the callback of setInterval(..., HEARTBEAT_INTERVAL_MS)
presenceHeartbeatFires ==
    /\ presenceHook.heartbeatTimer # None
    /\ presenceHook.heartbeatTimer <= now
    /\ presenceHook' = [presenceHook EXCEPT !.heartbeatTimer = now + HEARTBEAT_INTERVAL_MS]
    /\ IF ShouldBeat(presenceHook)
       THEN set("online")
       ELSE UNCHANGED <<presence, outcome>>
    /\ UNCHANGED presenceHookFrame

\* handleVisibility: the tab is hidden (both timers are cleared, idle) or
\* shown again (online, the timers are restarted)
handleVisibility(hidden) ==
    /\ presenceHook.mounted
    /\ presenceHook.hidden # hidden
    /\ IF hidden
       THEN /\ presenceHook' = [presenceHook EXCEPT !.hidden = TRUE,
                                                    !.currentStatus = "idle",
                                                    !.idleTimer = None,
                                                    !.heartbeatTimer = None]
            /\ set("idle")
       ELSE /\ presenceHook' = [presenceHook EXCEPT !.hidden = FALSE,
                                                    !.currentStatus = "online",
                                                    !.idleTimer = now + IDLE_AFTER_MS,
                                                    !.heartbeatTimer = startHeartbeat]
            /\ set("online")
    /\ UNCHANGED presenceHookFrame

\* the cleanup of the effect: the timers are cleared, set("offline")
usePresenceCleanup ==
    /\ presenceHook.mounted
    /\ presenceHook' = [presenceHook EXCEPT !.mounted = FALSE,
                                            !.idleTimer = None,
                                            !.heartbeatTimer = None]
    /\ set("offline")
    /\ UNCHANGED presenceHookFrame

\* the instant the next timer of the presence hook is due, None when none is armed
PresenceDeadline ==
    LET due == { presenceHook.idleTimer, presenceHook.heartbeatTimer } \ {None}
    IN IF due = {} THEN None ELSE Min(due)

\* ------------------------------------------------------------------- users
\* an optional string argument or field that is undefined
Absent == "(undefined)"

\* the fields of a users row that upsertUser syncs
ProfileFields == { "name", "displayName", "email", "imageUrl" }

\* A patch that always writes the name, the email and the image.
UpsertPatchAlways(existing, args) == { "name", "email", "imageUrl" }

\* the keys of the patch upsertUser builds for an existing row: the fields
\* whose stored value is not the argument's
UpsertPatch(existing, args) ==
    (IF existing.name # args.name THEN {"name"} ELSE {})
    \cup (IF existing.displayName # args.displayName THEN {"displayName"} ELSE {})
    \cup (IF existing.email # args.email THEN {"email"} ELSE {})
    \cup (IF existing.imageUrl # args.imageUrl THEN {"imageUrl"} ELSE {})

\* ctx.db.patch(existing._id, patch): the row with the fields of the patch
\* taken from the arguments; not called for an empty patch
PatchedUser(existing, patch, args) ==
    IF patch = {} THEN existing
    ELSE [f \in DOMAIN existing |-> IF f \in patch THEN args[f] ELSE existing[f]]

\* the users row of a first sync: displayName only when it is a non-empty string
NewUser(args) ==
    [clerkId |-> args.clerkId, name |-> args.name,
     displayName |-> IF args.displayName \in {Absent, ""} THEN Absent
                     ELSE args.displayName,
     email |-> args.email, imageUrl |-> args.imageUrl]

\* upsertUser, called by the Clerk webhook with no identity: patches the row
\* of the clerkId, or inserts it and bootstraps its presence row
upsertUser(args) ==
    LET hit == { i \in DOMAIN users : users[i].clerkId = args.clerkId }
        userId == Len(users) + 1
        existingPresence == PresenceOf(presence, userId)
    IN /\ UNCHANGED <<typingHook, presenceHook, sending, now, conversations, members,
                      messages, reactions, typing, inflight, toggling, heartbeats, returned>>
       /\ IF hit # {}
          THEN /\ users' = [users EXCEPT ![Min(hit)] =
                               PatchedUser(@, UpsertPatch(@, args), args)]
               /\ UNCHANGED presence
               /\ outcome' = [op |-> "upsertUser", ok |-> TRUE]
          ELSE IF existingPresence = Threw
          THEN /\ UNCHANGED <<users, presence>>
               /\ outcome' = [op |-> "upsertUser", ok |-> FALSE]
          ELSE /\ users' = Append(users, NewUser(args))
               /\ presence' =
                     IF existingPresence = None
                     THEN Append(presence,
                             [userId |-> userId, status |-> "offline",
                              lastSeenAt |-> IF args.createdAt # None
                                             THEN args.createdAt ELSE now])
                     ELSE presence
               /\ outcome' = [op |-> "upsertUser", ok |-> TRUE]

\* A deleteUser that leaves the presence row as it is.
DeletedPresenceKept(row) == row

\* the presence row of a user deleted from Clerk
DeletedPresence(row) == [row EXCEPT !.status = "offline", !.lastSeenAt = now]

\* deleteUser, called by the Clerk webhook: the users row stays
deleteUser(clerkId) ==
    LET hit == { i \in DOMAIN users : users[i].clerkId = clerkId }
        row == IF hit = {} THEN None ELSE PresenceOf(presence, Min(hit))
    IN /\ UNCHANGED <<typingHook, presenceHook, sending, now, conversations, members,
                      messages, reactions, users, typing, inflight, toggling, heartbeats,
                      returned>>
       /\ IF row = Threw
          THEN /\ outcome' = [op |-> "deleteUser", ok |-> FALSE]
               /\ UNCHANGED presence
          ELSE /\ presence' = IF row # None
                              THEN [presence EXCEPT ![row] = DeletedPresence(@)]
                              ELSE presence
               /\ outcome' = [op |-> "deleteUser", ok |-> TRUE]

\* ------------------------------------------------------ the Clerk webhook
\* new Response(body, { status })
Response(body, status) == [status |-> status, body |-> body]

\* no request has been answered yet
NoResponse == Response("", None)

\* extractUserFields: the arguments of upsertUser from a Clerk user object.
\* The name is the first name, else the username, else "User"; displayName
\* is the username when there is one that is not the name. The email and the
\* avatar are taken as they come.
extractUserFields(data) ==
    LET name == IF data.first_name # "" THEN data.first_name
                ELSE IF data.username \notin {Absent, ""} THEN data.username
                ELSE "User"
    IN [clerkId |-> data.id, name |-> name,
        displayName |-> IF data.username \notin {Absent, ""} /\ data.username # name
                        THEN data.username ELSE Absent,
        email |-> "a@x", imageUrl |-> "img", createdAt |-> data.created_at]

\* A route that logs the error of the mutation and answers OK all the same.
DispatchResponseSwallowed(applied) == Response("OK", 200)

\* the answer of the route after the dispatch: OK when the mutation resolved,
\* the response of the catch block when it rejected
DispatchResponse(applied) ==
    IF applied THEN Response("OK", 200)
    ELSE Response("Internal error - Convex mutation failed", 500)

\* everything but the response of the route and the outcome of the mutation
routeFrame == <<now, conversations, members, messages, reactions, users, presence, typing,
                inflight, toggling, heartbeats, sending, typingHook, presenceHook, returned>>

\* convex.mutation(...) rejects: the deployment is not reachable, nothing is written
MutationRejected(op) ==
    /\ outcome' = [op |-> op, ok |-> FALSE]
    /\ UNCHANGED routeFrame

\* POST of the webhook route for an event; verified says whether the Svix
\* signature is valid, up whether the Convex deployment takes the mutation
POST(event, verified, up) ==
    IF ~verified
    THEN /\ response' = Response("Invalid signature", 400)
         /\ UNCHANGED <<routeFrame, outcome>>
    ELSE IF event.type \in {"user.created", "user.updated"}
    THEN /\ IF up THEN upsertUser(extractUserFields(event.data))
                  ELSE MutationRejected("upsertUser")
         /\ response' = DispatchResponse(outcome'.ok)
    ELSE IF event.type = "user.deleted"
    THEN IF event.data.id = None
         THEN /\ response' = Response("Missing user id", 400)
              /\ UNCHANGED <<routeFrame, outcome>>
         ELSE /\ IF up THEN deleteUser(event.data.id)
                       ELSE MutationRejected("deleteUser")
              /\ response' = DispatchResponse(outcome'.ok)
    ELSE /\ response' = Response("OK", 200)
         /\ UNCHANGED <<routeFrame, outcome>>

\* the status searchUsers reports for a user: the stored one, offline without a row
SearchStatus(userId) ==
    LET row == PresenceOf(presence, userId)
    IN IF row = None THEN "offline" ELSE presence[row].status

\* searchUsers with the empty query: every user but the caller, with a status
\* (the order of the result is left out)
searchUsers(identity) ==
    LET callerId == getAuthUserId(identity)
        others == SelectSeq([i \in DOMAIN users |-> i], LAMBDA id : id # callerId)
    IN IF \E id \in DOMAIN users : PresenceOf(presence, id) = Threw
       THEN Thrown
       ELSE Returned([i \in DOMAIN others |->
                        [_id |-> others[i], name |-> users[others[i]].name,
                         status |-> SearchStatus(others[i]),
                         lastSeenAt |->
                            IF PresenceOf(presence, others[i]) = None THEN 0
                            ELSE presence[PresenceOf(presence, others[i])].lastSeenAt]])

\* listConversations: the status of the other participant of each dm of the
\* caller, derived from that user's presence row (offline at 0 without one)
listConversations(userId) ==
    LET mine == SelectSeq(members, LAMBDA m :
                    /\ m.userId = userId
                    /\ conversations[m.conversationId].type = "dm"
                    /\ \E id \in Range(conversations[m.conversationId].participantIds) :
                          id # userId)
        OtherOf(m) ==
            LET ids == conversations[m.conversationId].participantIds
            IN ids[Min({ k \in DOMAIN ids : ids[k] # userId })]
    IN IF \E i \in DOMAIN mine : PresenceOf(presence, OtherOf(mine[i])) = Threw
       THEN Thrown
       ELSE Returned([i \in DOMAIN mine |->
               LET otherUserId == OtherOf(mine[i])
                   row == PresenceOf(presence, otherUserId)
               IN [_id |-> mine[i].conversationId,
                   otherUserId |-> otherUserId,
                   status |-> IF row = None THEN getEffectiveStatus("offline", 0)
                              ELSE getEffectiveStatus(presence[row].status,
                                                      presence[row].lastSeenAt),
                   unreadCount |-> mine[i].unreadCount]])

\* the lastMessageText of the row listConversations returns for a
\* conversation, dm or group: that of the conversation (...conversation)
ListedLastMessageText(conversationId) == conversations[conversationId].lastMessageText

\* the unreadCount of the row listConversations returns to the caller for a
\* conversation, dm or group: that of the caller's membership row
ListedUnreadCount(userId, conversationId) ==
    members[MembershipOf(userId, conversationId)].unreadCount

\* ------------------------------------------------------------------ typing
\* the client: the stop delay after the last keystroke, the refresh interval
TYPING_STOP_DELAY == 2000
TYPING_HEARTBEAT == 2000

\* the server: how long an indicator lives without a refresh
TYPING_TTL_MS == 3000

\* .withIndex("by_user_conversation").unique() on the typing table
TypingOf(userId, conversationId) ==
    LET hit == { i \in DOMAIN typing :
                    typing[i].userId = userId /\ typing[i].conversationId = conversationId }
    IN IF hit = {} THEN None ELSE Min(hit)

\* the typing table after setTyping by a user: the row is refreshed or
\* inserted, or deleted
TypingAfter(userId, conversationId, isTyping) ==
    LET existing == TypingOf(userId, conversationId)
    IN IF isTyping
       THEN IF existing # None
            THEN [typing EXCEPT ![existing].updatedAt = now]
            ELSE Append(typing, [conversationId |-> conversationId,
                                 userId |-> userId, updatedAt |-> now])
       ELSE IF existing # None
            THEN RemoveAt(typing, existing)
            ELSE typing

\* A read that returns every other user's row, however old.
IsActiveTypingNoTtl(row, userId) == row.userId # userId

\* the filter of getTypingUsers: another user's row, newer than the cutoff
IsActiveTyping(row, userId) ==
    /\ row.userId # userId
    /\ row.updatedAt > now - TYPING_TTL_MS

getTypingUsers(identity, conversationId) ==
    LET userId == getAuthUserId(identity)
        indicators == SelectSeq(typing, LAMBDA t : t.conversationId = conversationId)
        active == SelectSeq(indicators, LAMBDA t : IsActiveTyping(t, userId))
    IN IF userId = None THEN Thrown
       ELSE Returned([i \in DOMAIN active |->
                        [userId |-> active[i].userId,
                         name |-> IF active[i].userId \in DOMAIN users
                                  THEN users[active[i].userId].name
                                  ELSE "Someone"]])

setTyping(identity, conversationId, isTyping) ==
    LET userId == getAuthUserId(identity)
        existing == TypingOf(userId, conversationId)
    IN /\ UNCHANGED <<hookVars, sending, now, conversations, members, messages, reactions, users, presence,
                      inflight, toggling, heartbeats, returned>>
       /\ IF userId = None
          THEN /\ outcome' = [op |-> "setTyping", ok |-> FALSE]
               /\ UNCHANGED typing
          ELSE /\ typing' = TypingAfter(userId, conversationId, isTyping)
               /\ outcome' = [op |-> "setTyping", ok |-> TRUE]

\* ------------------------------------------------- the useTypingReporter hook
\* The hook of user 1 with the group open. A timer is the instant at which
\* it is due, None when it is not armed; a mutation the hook sends is applied
\* at the instant it is sent.
TypingClient == 1
TypingConversation == 2

\* A heartbeat as slow as the indicator's time to live.
HeartbeatDueAtTtl(start) == start + TYPING_TTL_MS

\* the instant the interval started or restarted at start fires next
HeartbeatDue(start) == start + TYPING_HEARTBEAT

\* clearTimers
clearTimers(hook) == [hook EXCEPT !.stopTimer = None, !.heartbeatTimer = None]

\* sendStop: clears the timers and, when typing, sends setTyping(false)
sendStop ==
    /\ typingHook' = [clearTimers(typingHook) EXCEPT !.isTyping = FALSE]
    /\ typing' = IF typingHook.isTyping
                 THEN TypingAfter(TypingClient, TypingConversation, FALSE)
                 ELSE typing
    /\ outcome' = IF typingHook.isTyping
                  THEN [op |-> "setTyping", ok |-> TRUE]
                  ELSE outcome

\* what a step of the typing hook leaves alone
typingHookFrame == <<now, conversations, members, messages, reactions, users, presence,
                     inflight, toggling, heartbeats, sending, presenceHook, response,
                     returned>>

\* reportTyping, called on every keystroke: the first one of a burst sends
\* setTyping(true) and starts the heartbeat; each one restarts the stop timer
reportTyping ==
    /\ typingHook' =
          [isTyping |-> TRUE,
           stopTimer |-> now + TYPING_STOP_DELAY,
           heartbeatTimer |-> IF ~typingHook.isTyping THEN HeartbeatDue(now)
                              ELSE typingHook.heartbeatTimer]
    /\ typing' = IF ~typingHook.isTyping
                 THEN TypingAfter(TypingClient, TypingConversation, TRUE)
                 ELSE typing
    /\ outcome' = IF ~typingHook.isTyping
                  THEN [op |-> "setTyping", ok |-> TRUE]
                  ELSE outcome
    /\ UNCHANGED typingHookFrame

\* the stop timer is due: setTimeout(sendStop, TYPING_STOP_DELAY)
stopTimerFires ==
    /\ typingHook.stopTimer # None
    /\ typingHook.stopTimer <= now
    /\ sendStop
    /\ UNCHANGED typingHookFrame

\* the heartbeat is due: the callback of setInterval(..., TYPING_HEARTBEAT)
heartbeatTimerFires ==
    /\ typingHook.heartbeatTimer # None
    /\ typingHook.heartbeatTimer <= now
    /\ typingHook' = [typingHook EXCEPT !.heartbeatTimer = HeartbeatDue(now)]
    /\ typing' = IF typingHook.isTyping
                 THEN TypingAfter(TypingClient, TypingConversation, TRUE)
                 ELSE typing
    /\ outcome' = IF typingHook.isTyping
                  THEN [op |-> "setTyping", ok |-> TRUE]
                  ELSE outcome
    /\ UNCHANGED typingHookFrame

\* stopTyping, called on send, blur and unmount
stopTyping ==
    /\ sendStop
    /\ UNCHANGED typingHookFrame

\* the instant the next timer of the typing hook is due, None when none is armed
TypingDeadline ==
    LET due == { typingHook.stopTimer, typingHook.heartbeatTimer } \ {None}
    IN IF due = {} THEN None ELSE Min(due)


\* time passes until the instant t
ElapseTo(t) ==
    /\ t > now
    /\ now' = t
    /\ UNCHANGED <<presenceVars, toggling, sending, conversations, members, messages, reactions,
                   inflight, returned, outcome>>

\* time passes until the instant t, no later than the next timer of the hook
TypingElapseTo(t) ==
    /\ TypingDeadline # None => t <= TypingDeadline
    /\ ElapseTo(t)

\* time passes until the instant t, no later than the next timer of the hook
PresenceElapseTo(t) ==
    /\ PresenceDeadline # None => t <= PresenceDeadline
    /\ ElapseTo(t)

\* ------------------------------------------------------------------ clock
Tick ==
    /\ now < MaxTime
    /\ now' = now + 1
    /\ UNCHANGED <<presenceVars, toggling, sending, conversations, members, messages, reactions,
                   inflight, returned, outcome>>

\* ------------------------------------------------------------------- Init
\* useTypingReporter before the first keystroke: not typing, no timer
TypingHookIdle == [isTyping |-> FALSE, stopTimer |-> None, heartbeatTimer |-> None]
\* usePresence before its effect has run: no timer
PresenceHookUnmounted ==
    [mounted |-> FALSE, hidden |-> FALSE, currentStatus |-> "online",
     idleTimer |-> None, heartbeatTimer |-> None]

\* every user synced by upsertUser at time 0, in the order of their ids, each
\* with the presence row the first sync bootstraps
SyncedUsers ==
    [u \in Users |-> [clerkId |-> u, name |-> "ann", displayName |-> Absent,
                      email |-> "a@x", imageUrl |-> "img"]]
BootstrappedPresence == [u \in Users |-> [userId |-> u, status |-> "offline", lastSeenAt |-> 0]]

InitEmpty ==
    /\ now = 0
    /\ conversations = <<>>
    /\ members = <<>>
    /\ messages = <<>>
    /\ reactions = <<>>
    /\ users = SyncedUsers
    /\ presence = BootstrappedPresence
    /\ typing = <<>>
    /\ inflight = {}
    /\ toggling = {}
    /\ heartbeats = {}
    /\ sending = {}
    /\ typingHook = TypingHookIdle
    /\ presenceHook = PresenceHookUnmounted
    /\ response = NoResponse
    /\ returned = [p \in Pairs |-> {}]
    /\ outcome = [op |-> "init", ok |-> TRUE]

\* the whole handler as one transaction with no other transaction in between
getOrCreateConversation(userId, otherUserId) ==
    IF userId = otherUserId
    THEN getOrCreateConversationBegin(userId, otherUserId)
    ELSE getOrCreateConversationCommit(
            [caller |-> userId, other |-> otherUserId,
             seen |-> DedupLookup(conversations, userId, otherUserId)])

\* ---------------------------------------------- the Conversation Manager
NextConv ==
    \/ \E u, o \in Users : getOrCreateConversation(u, o)
    \/ \E u \in Users, a \in GroupArgs : createGroup(u, a[1], a[2])
    \/ \E u \in Users, c \in ConvIds : leaveConversation(u, c)

SpecConv == InitEmpty /\ [][NextConv]_vars

\* The Conversation Manager with getOrCreateConversation calls that overlap:
\* each reads when it begins and commits later.
NextRace ==
    \/ \E u, o \in Users : getOrCreateConversationBegin(u, o)
    \/ \E call \in inflight : getOrCreateConversationCommit(call)
    \/ \E u, a \in Users : createGroup(u, <<"g">>, <<a>>)
    \/ \E u \in Users, c \in ConvIds : leaveConversation(u, c)

SpecRace == InitEmpty /\ [][NextRace]_vars

\* ------------------------------------------------------ the Message Store
\* A dm of users 1 and 2 and a group of users 1, 2 and 3 that user 1 created:
\* the state after getOrCreateConversation(1, 2) and createGroup(1, "g", [2, 3]),
\* a state SpecConv reaches.
InitSeed ==
    /\ now = 0
    /\ conversations =
          << NewConversation("dm", <<1, 2>>, <<>>, None),
             NewConversation("group", <<1, 2, 3>>, <<"g">>, 1) >>
    /\ members =
          << NewMember(1, 1, "none"), NewMember(1, 2, "none"),
             NewMember(2, 1, "admin"), NewMember(2, 2, "member"),
             NewMember(2, 3, "member") >>
    /\ messages = <<>>
    /\ reactions = <<>>
    /\ users = SyncedUsers
    /\ presence = BootstrappedPresence
    /\ typing = <<>>
    /\ inflight = {}
    /\ toggling = {}
    /\ heartbeats = {}
    /\ sending = {}
    /\ typingHook = TypingHookIdle
    /\ presenceHook = PresenceHookUnmounted
    /\ response = NoResponse
    /\ returned = [p \in Pairs |-> IF p = <<1, 2>> THEN {1} ELSE {}]
    /\ outcome = [op |-> "createGroup", ok |-> TRUE]

\* An id that passes v.id("messages") and is the id of no message: the
\* validator checks the table of an id, never that the document exists.
ForgedId == MaxMsgs + 1
\* The replyToId of a sendMessage call of the shipped client: none, or the id
\* of a message that exists (the id of the message being sent is not known
\* before it is inserted).
ReplyArgs == {None} \cup DOMAIN messages
\* The lastReadMessageId of a markConversationRead call: none, or message 1.
ReadArgs == {None, 1}

\* Unread counters: messages are sent and conversations are marked read.
NextUnread ==
    \/ \E u \in Users, c \in ConvIds, t \in Texts : sendMessage(u, c, t, None)
    \/ \E u \in Users, c \in ConvIds, r \in ReadArgs : markConversationRead(u, c, r)

SpecUnread == InitSeed /\ [][NextUnread]_vars

\* Unread counters under concurrency: users 1 and 2 send into the group with
\* calls that overlap, each reading when it begins and committing later,
\* while the members mark the group read.
NextUnreadRace ==
    \/ \E u \in {1, 2} : sendMessageBegin(u, 2, <<"a">>)
    \/ \E call \in sending : sendMessageCommit(call)
    \/ \E u \in Users : markConversationRead(u, 2, None)

SpecUnreadRace == InitSeed /\ [][NextUnreadRace]_vars

\* Read cursors: user 1 sends into the group as time passes while the other
\* members mark it read, with no cursor or up to any message that exists.
NextReadMark ==
    \/ sendMessage(1, 2, <<"a">>, None)
    \/ \E u \in Users \ {1}, r \in {None} \cup DOMAIN messages :
          markConversationRead(u, 2, r)
    \/ Tick

SpecReadMark == InitSeed /\ [][NextReadMark]_vars

\* Messages are sent, edited and deleted as time passes.
NextMsg ==
    \/ \E u \in Users, c \in ConvIds, t \in Texts, r \in ReplyArgs : sendMessage(u, c, t, r)
    \/ \E u \in Users, m \in MsgIds, t \in EditTexts : editMessage(u, m, t)
    \/ \E u \in Users, m \in MsgIds : deleteMessage(u, m)
    \/ Tick

SpecMsg == InitSeed /\ [][NextMsg]_vars

\* Reply links: any client of the public mutation sends replies, also with
\* an id of no message.
NextReply ==
    \/ \E u \in Users, c \in ConvIds, r \in ReplyArgs \cup {ForgedId} :
          sendMessage(u, c, <<"a">>, r)
    \/ \E u \in Users, m \in MsgIds : deleteMessage(u, m)
    \/ Tick

SpecReply == InitSeed /\ [][NextReply]_vars

\* Leaving: members leave the group while messages are sent into the dm and
\* the group and conversations are marked read.
NextLeave ==
    \/ \E u \in Users, c \in ConvIds : leaveConversation(u, c)
    \/ \E u \in Users, c \in ConvIds : sendMessage(u, c, <<"a">>, None)
    \/ \E u \in Users, c \in ConvIds : markConversationRead(u, c, None)

SpecLeave == InitSeed /\ [][NextLeave]_vars

\* First contact: a dm is created, messages are sent into it and it is read.
NextFirstContact ==
    \/ \E u, o \in Users : getOrCreateConversation(u, o)
    \/ \E u \in Users, c \in ConvIds, t \in Texts : sendMessage(u, c, t, None)
    \/ \E u \in Users, c \in ConvIds : markConversationRead(u, c, None)
    \/ Tick

SpecFirstContact == InitEmpty /\ [][NextFirstContact]_vars

\* Reactions: messages are sent into the group and deleted, reactions toggled.
NextReact ==
    \/ sendMessage(1, 2, <<"a">>, None)
    \/ \E m \in DOMAIN messages : deleteMessage(messages[m].senderId, m)
    \/ \E u \in Users, m \in MsgIds, e \in Emojis : toggleReaction(u, m, e)
    \/ Tick

SpecReact == InitSeed /\ [][NextReact]_vars

\* Reactions toggled by calls that overlap: each reads when it begins and
\* commits later, while messages are sent into the group and deleted.
NextReactRace ==
    \/ sendMessage(1, 2, <<"a">>, None)
    \/ \E m \in DOMAIN messages : deleteMessage(messages[m].senderId, m)
    \/ \E u \in Users, m \in MsgIds : toggleReactionBegin(u, m, "up")
    \/ \E call \in toggling : toggleReactionCommit(call)

SpecReactRace == InitSeed /\ [][NextReactRace]_vars

\* ---------------------------------------------------------------- presence
\* The Clerk identity of a call: that of a synced user, or none.
Identities == {None} \cup Users
\* The instants at which something is done or read: the start, a moment
\* later, and the moments around the expiry of a heartbeat sent at either.
PresenceInstants ==
    { 0, 1, PRESENCE_EXPIRY_MS, PRESENCE_EXPIRY_MS + 1, PRESENCE_EXPIRY_MS + 2 }

\* Heartbeats and status changes, one call at a time, as time passes.
NextPresence ==
    \/ \E id \in Identities, s \in Statuses : setPresence(id, s)
    \/ \E t \in PresenceInstants : ElapseTo(t)

SpecPresence == InitSeed /\ [][NextPresence]_vars

\* One user that the earlier upsertUser synced, which creates no presence
\* row; no other user yet.
InitLegacy ==
    /\ now = 0
    /\ conversations = <<>>
    /\ members = <<>>
    /\ messages = <<>>
    /\ reactions = <<>>
    /\ users = << [clerkId |-> 1, name |-> "ann", displayName |-> Absent,
                   email |-> "a@x", imageUrl |-> "img"] >>
    /\ presence = <<>>
    /\ typing = <<>>
    /\ inflight = {}
    /\ toggling = {}
    /\ heartbeats = {}
    /\ sending = {}
    /\ typingHook = TypingHookIdle
    /\ presenceHook = PresenceHookUnmounted
    /\ response = NoResponse
    /\ returned = [p \in Pairs |-> {}]
    /\ outcome = [op |-> "upsertUser", ok |-> TRUE]

\* The Clerk users of the events: the id of the synced user or of a new one,
\* the names upsertUser is given, and Clerk's created_at, which may be missing.
ClerkArgs == {1, 2}
Names == {"ann", "bo", "User"}
CreatedArgs == {None, 1}
\* The Clerk user objects of the events: with or without a first name and a
\* username.
UserObjects ==
    [id : ClerkArgs, first_name : {"ann", ""}, username : {Absent, "bo"},
     created_at : CreatedArgs]
\* The events that sync a user.
SyncEvents == [type : {"user.created", "user.updated"}, data : UserObjects]
\* The events of a deleted user, one of them without an id, and an event the
\* route has no dispatch for.
OtherEvents ==
    { [type |-> "user.deleted", data |-> [id |-> k]] : k \in ClerkArgs \cup {None} }
    \cup { [type |-> "session.created", data |-> [id |-> 1]] }
Events == SyncEvents \cup OtherEvents
\* The events of users created with a first name and no username.
CreatedEvents ==
    { event \in SyncEvents : /\ event.type = "user.created"
                             /\ event.data.first_name = "ann"
                             /\ event.data.username = Absent }
\* The statuses of the heartbeats that overlap.
BeatArgs == {"online", "idle"}

\* The directory: users are synced while heartbeats overlap, each reading
\* when it begins and committing later.
NextDirectory ==
    \/ \E event \in CreatedEvents : POST(event, TRUE, TRUE)
    \/ \E id \in {None} \cup ClerkArgs, s \in BeatArgs : setPresenceBegin(id, s)
    \/ \E call \in heartbeats : setPresenceCommit(call)
    \/ Tick

SpecDirectory == InitLegacy /\ [][NextDirectory]_vars

\* The arguments upsertUser can be called with: two subjects, with a name, a
\* username that is missing, empty or set, the email and the image as stored,
\* and a creation time that may be missing.
UpsertArgs ==
    [clerkId : ClerkArgs, name : Names, displayName : {Absent, "", "bo"},
     email : {"a@x"}, imageUrl : {"img"}, createdAt : CreatedArgs]

\* The sync: Clerk posts signed events that the deployment takes; heartbeats
\* come in, time passes.
NextSync ==
    \/ \E event \in Events : POST(event, TRUE, TRUE)
    \/ \E id \in ClerkArgs : setPresence(id, "online")
    \/ Tick

SpecSync == InitLegacy /\ [][NextSync]_vars

\* The events posted to the route: users created, updated and deleted, a
\* deletion without an id and an event of another type.
WebhookEvents ==
    { event \in SyncEvents : event.data.first_name = "ann" /\ event.data.username = Absent }
    \cup OtherEvents

\* The webhook: Clerk posts events, signed or not, while the deployment is up
\* or not; heartbeats come in, time passes.
NextWebhook ==
    \/ \E event \in WebhookEvents, verified \in BOOLEAN, up \in BOOLEAN :
          POST(event, verified, up)
    \/ \E id \in ClerkArgs : setPresence(id, "online")
    \/ Tick

SpecWebhook == InitLegacy /\ [][NextWebhook]_vars

\* ------------------------------------------------------------------ typing
\* The instants at which something is done or read: the start, a moment
\* later, and the moments around the expiry of an indicator set at either.
TypingInstants == { 0, 1, TYPING_TTL_MS, TYPING_TTL_MS + 1, TYPING_TTL_MS + 2 }

\* Typing indicators are set, refreshed and cleared in the group as time passes.
NextTyping ==
    \/ \E id \in Identities, b \in BOOLEAN : setTyping(id, 2, b)
    \/ \E t \in TypingInstants : ElapseTo(t)

SpecTyping == InitSeed /\ [][NextTyping]_vars

\* The instants at which a key is pressed, a timer fires or a reader looks:
\* every second for MaxSeconds seconds.
MaxSeconds == 6
HookInstants == { k * 1000 : k \in 0..MaxSeconds }

\* User 1 types in the group through the hook, with keystrokes at any instant
\* and timers that fire when they are due, while user 3 sets and clears an
\* indicator of its own.
NextTypingHook ==
    \/ reportTyping
    \/ stopTimerFires
    \/ heartbeatTimerFires
    \/ stopTyping
    \/ \E b \in BOOLEAN : setTyping(3, TypingConversation, b)
    \/ \E t \in HookInstants : TypingElapseTo(t)

SpecTypingHook == InitSeed /\ [][NextTypingHook]_vars

\* The instants at which the user acts, a timer fires or a reader looks:
\* every heartbeat interval for MaxBeats intervals.
MaxBeats == 8
BeatInstants == { k * HEARTBEAT_INTERVAL_MS : k \in 0..MaxBeats }

\* User 1 opens the app in a tab, moves the mouse or not, hides and shows
\* the tab and closes it, with timers that fire when they are due.
NextPresenceHook ==
    \/ usePresenceMount
    \/ resetIdleTimer
    \/ idleTimerFires
    \/ presenceHeartbeatFires
    \/ \E hidden \in BOOLEAN : handleVisibility(hidden)
    \/ usePresenceCleanup
    \/ \E t \in BeatInstants : PresenceElapseTo(t)

SpecPresenceHook == InitSeed /\ [][NextPresenceHook]_vars

\* ------------------------------------------------------------------ claims
IsDmOf(c, p) ==
    /\ conversations[c].type = "dm"
    /\ Range(conversations[c].participantIds) = {p[1], p[2]}

\* C1: for two distinct users A and B, every getOrCreateConversation call by A
\* for B or by B for A returns the same conversation id.
C1_SameConversationId ==
    \A p \in Pairs : Cardinality(returned[p]) <= 1

\* C2: in every reachable state, also with overlapping first-contact calls for
\* the same pair, there is at most one dm conversation per unordered pair.
C2_OneDmPerPair ==
    \A p \in Pairs : Cardinality({ c \in DOMAIN conversations : IsDmOf(c, p) }) <= 1

\* Two first-contact calls for one pair overlapped: one has created the dm
\* while the other, which read that there was none, has yet to commit.
C2_Witness ==
    \E call \in inflight :
        /\ call.seen = None
        /\ \E c \in DOMAIN conversations : IsDmOf(c, PairOf(call.caller, call.other))

\* the unreadCount of every membership row, by position
UnreadCounts == [i \in DOMAIN members |-> members[i].unreadCount]

\* C3: a successful sendMessage by member S adds exactly 1 to the unreadCount of
\* every other member of that conversation, and leaves S's own unreadCount and
\* the unreadCount of every row of other conversations unchanged.
C3_SendIncrementsOthers ==
    [][\A u \in Users, c \in ConvIds, t \in Texts :
          (sendMessage(u, c, t, None) /\ outcome'.ok) =>
             /\ DOMAIN members' = DOMAIN members
             /\ \A i \in DOMAIN members :
                   /\ members'[i].userId = members[i].userId
                   /\ members'[i].conversationId = members[i].conversationId
                   /\ members'[i].unreadCount =
                         IF members[i].conversationId = c /\ members[i].userId # u
                         THEN members[i].unreadCount + 1
                         ELSE members[i].unreadCount]_vars

\* User 1 has sent one message into the group: users 2 and 3 have one unread
\* message there, user 1 has none, and the rows of the dm are untouched.
C3_Witness ==
    /\ outcome = [op |-> "sendMessage", ok |-> TRUE]
    /\ Len(messages) = 1
    /\ messages[1].conversationId = 2 /\ messages[1].senderId = 1
    /\ UnreadCounts = <<0, 0, 0, 1, 1>>

\* C4: markConversationRead by member U sets U's unreadCount in that
\* conversation to 0 and leaves every other row's unreadCount unchanged; with
\* no membership row the call changes nothing and raises no error.
C4_MarkReadResetsOwn ==
    [][\A u \in Users, c \in ConvIds, r \in ReadArgs :
          markConversationRead(u, c, r) =>
             /\ outcome'.ok
             /\ DOMAIN members' = DOMAIN members
             /\ \A i \in DOMAIN members :
                   members'[i].unreadCount =
                      IF members[i].conversationId = c /\ members[i].userId = u
                      THEN 0
                      ELSE members[i].unreadCount
             /\ MembershipOf(u, c) = None =>
                   UNCHANGED <<members, conversations, messages>>]_vars

\* User 2 has marked the group read up to message 1 while user 3 still has
\* unread messages there and user 2 still has one in the dm.
C4_Witness ==
    /\ outcome = [op |-> "markConversationRead", ok |-> TRUE]
    /\ members[4].unreadCount = 0 /\ members[4].lastReadMessageId = 1
    /\ members[5].unreadCount = 2
    /\ members[2].unreadCount = 0
    /\ Len(messages) = 2

\* C5: after A creates a dm with new contact B and sends one message,
\* getConversationMeta called by B returns unreadCount 1 and the message's
\* sentAt; after B then calls markConversationRead, getConversationMeta called
\* by B returns unreadCount 0.  (B's stored unreadCount is 1 from the send until
\* B marks the conversation read, and 0 from then on.)
C5_MetaFollowsMarkRead ==
    \A c \in DOMAIN conversations : \A a, b \in Users :
        ( /\ conversations[c].type = "dm"
          /\ a # b
          /\ Range(conversations[c].participantIds) = {a, b}
          /\ { m \in DOMAIN messages : messages[m].conversationId = c } # {}
          /\ \A m, n \in { k \in DOMAIN messages : messages[k].conversationId = c } :
                m = n /\ messages[m].senderId = a
          /\ \A m \in DOMAIN messages :
                messages[m].conversationId = c =>
                   messages[m].sentAt > members[MembershipOf(b, c)].joinedAt )
        =>
        LET meta == getConversationMeta(b, c)
            stored == members[MembershipOf(b, c)].unreadCount
            m == CHOOSE k \in DOMAIN messages : messages[k].conversationId = c
        IN /\ meta.latestMessageSentAt = messages[m].sentAt
           /\ stored = 1 => meta.unreadCount = 1
           /\ stored = 0 => meta.unreadCount = 0

\* C6: for every deleted message listMessages returns a row with text null,
\* edited false and editedAt null whatever its edit history, whose _id,
\* sentAt, senderId and replyToId are the stored ones.
C6_TombstoneProjection ==
    \A m \in DOMAIN messages :
        messages[m].deleted =>
           LET rows == listMessages(messages[m].conversationId)
               hit == { i \in DOMAIN rows : rows[i]._id = m }
           IN /\ Cardinality(hit) = 1
              /\ \A i \in hit :
                    /\ rows[i].text = NullText
                    /\ rows[i].edited = FALSE
                    /\ rows[i].editedAt = None
                    /\ rows[i].sentAt = messages[m].sentAt
                    /\ rows[i].senderId = messages[m].senderId
                    /\ rows[i].replyToId = messages[m].replyToId

\* A message that replies to another was edited and then deleted.
C6_Witness ==
    \E m \in DOMAIN messages :
        /\ messages[m].deleted
        /\ messages[m].edited
        /\ messages[m].text = <<"b">>
        /\ messages[m].replyToId # None

\* C7: once a message is deleted, no step makes it not deleted or changes its
\* stored text, and every editMessage on it fails.
C7_DeleteIrreversible ==
    [][/\ \A m \in DOMAIN messages :
            messages[m].deleted =>
               /\ m \in DOMAIN messages'
               /\ messages'[m].deleted
               /\ messages'[m].text = messages[m].text
       /\ \A u \in Users, m \in MsgIds, t \in EditTexts :
            (editMessage(u, m, t) /\ m \in DOMAIN messages /\ messages[m].deleted) =>
               ~outcome'.ok /\ UNCHANGED messages]_vars

\* The sender's editMessage on a message deleted earlier has failed.
C7_Witness ==
    /\ outcome = [op |-> "editMessage", ok |-> FALSE]
    /\ Len(messages) = 1
    /\ messages[1].deleted /\ messages[1].deletedAt < now
    /\ messages[1].text = <<"a">>

\* C8: editMessage and deleteMessage succeed only for the message's sender; a
\* call by another user, or for a message id that does not exist, fails and
\* leaves every message and every conversation snapshot unchanged.
C8_SenderOnly ==
    [][/\ \A u \in Users, m \in MsgIds, t \in EditTexts :
            editMessage(u, m, t) =>
               IF m \in DOMAIN messages /\ messages[m].senderId = u
               THEN TRUE
               ELSE ~outcome'.ok /\ UNCHANGED <<messages, conversations>>
       /\ \A u \in Users, m \in MsgIds :
            deleteMessage(u, m) =>
               IF m \in DOMAIN messages /\ messages[m].senderId = u
               THEN TRUE
               ELSE ~outcome'.ok /\ UNCHANGED <<messages, conversations>>]_vars

\* A deleteMessage call has failed while the one stored message is intact.
C8_Witness ==
    /\ outcome = [op |-> "deleteMessage", ok |-> FALSE]
    /\ Len(messages) = 1
    /\ ~messages[1].deleted

\* C9: sendMessage fails, inserting no message and changing no snapshot and no
\* unreadCount, when the trimmed text is empty or the caller has no membership
\* row in the conversation.
C9_SendRejected ==
    [][\A u \in Users, c \in ConvIds, t \in Texts :
          (sendMessage(u, c, t, None)
             /\ (Trim(t) = <<>> \/ MembershipOf(u, c) = None)) =>
             /\ ~outcome'.ok
             /\ UNCHANGED <<messages, conversations, members>>]_vars

\* A sendMessage call has failed after another had delivered a message.
C9_Witness ==
    /\ outcome = [op |-> "sendMessage", ok |-> FALSE]
    /\ Len(messages) = 1
    /\ UnreadCounts = <<0, 1, 0, 0, 0>>

\* the reacting (message, user, emoji) triples of a reactions table
Triples(rows) == { <<rows[i].messageId, rows[i].userId, rows[i].emoji>> : i \in DOMAIN rows }

\* the count getReactions reports for an emoji: 0 when it has no entry
CountIn(view, emoji) ==
    LET hit == { i \in DOMAIN view : view[i].emoji = emoji }
    IN IF hit = {} THEN 0 ELSE view[Min(hit)].count

\* C10: two toggleReaction calls in a row with the same (message, user, emoji)
\* on a message that is not deleted bring the reacting triples back to what
\* they were, and each single call changes the getReactions count of that
\* emoji by exactly +1 or -1 and no other emoji's count.
C10_ToggleInverse ==
    \A u \in Users, m \in DOMAIN messages, e \in Emojis :
        ToggleAllowed(u, m, e) =>
           LET once == ToggleRows(reactions, m, u, e, now)
               twice == ToggleRows(once, m, u, e, now)
               before == ReactionsView(reactions, m, u)
               after == ReactionsView(once, m, u)
               again == ReactionsView(twice, m, u)
           IN /\ Triples(twice) = Triples(reactions)
              /\ CountIn(after, e) - CountIn(before, e) \in {1, -1}
              /\ CountIn(again, e) - CountIn(after, e) \in {1, -1}
              /\ CountIn(again, e) = CountIn(before, e)
              /\ \A f \in Emojis \ {e} :
                    /\ CountIn(after, f) = CountIn(before, f)
                    /\ CountIn(again, f) = CountIn(after, f)

\* User 1 has taken a reaction back: of two reactions to message 1, only
\* user 2's is left, and message 1 is not deleted.
C10_Witness ==
    /\ outcome = [op |-> "toggleReaction", ok |-> TRUE]
    /\ Len(messages) >= 1 /\ ~messages[1].deleted
    /\ Triples(reactions) = { <<1, 2, "heart">> }
    /\ now = 1 /\ reactions[1].createdAt = 0

\* C11: in every reachable state, also after overlapping toggleReaction calls
\* by one user for one message and emoji, there is at most one reactions row
\* per (messageId, userId, emoji) triple.
C11_OneRowPerTriple ==
    \A u \in Users, m \in MsgIds, e \in Emojis :
        Cardinality(ReactionRows(reactions, m, u, e)) <= 1

\* Two calls for one triple overlapped: one has inserted the row while the
\* other, which read that there was none, has yet to commit.
C11_Witness ==
    \E call \in toggling :
        /\ call.seen = {}
        /\ ReactionRows(reactions, call.messageId, call.userId, call.emoji) # {}

\* C12: toggleReaction on a message that does not exist or that is deleted
\* fails and neither inserts nor deletes any reactions row.
C12_ToggleRejected ==
    [][\A u \in Users, m \in MsgIds, e \in Emojis :
          (toggleReaction(u, m, e)
             /\ (m \notin DOMAIN messages \/ messages[m].deleted)) =>
             /\ ~outcome'.ok
             /\ UNCHANGED reactions]_vars

\* A toggleReaction call has failed on a deleted message that still carries
\* the reaction it got before it was deleted.
C12_Witness ==
    /\ outcome = [op |-> "toggleReaction", ok |-> FALSE]
    /\ \E i \in DOMAIN reactions :
          /\ reactions[i].messageId \in DOMAIN messages
          /\ messages[reactions[i].messageId].deleted

TypersSeenBy(identity, conversationId) ==
    LET result == getTypingUsers(identity, conversationId)
    IN { result.rows[i].userId : i \in DOMAIN result.rows }

\* C14: a user whose last setTyping(true) in a conversation is more than
\* TYPING_TTL_MS old is not among the users getTypingUsers returns to any
\* other user; and right after setTyping(false) by a user, getTypingUsers
\* returns that user to nobody, however fresh the row was.
C14_TypingExpires ==
    /\ [](\A id \in Users, c \in ConvIds, u \in Users :
            (u \in TypersSeenBy(id, c)) =>
               /\ u # getAuthUserId(id)
               /\ TypingOf(u, c) # None
               /\ now - typing[TypingOf(u, c)].updatedAt <= TYPING_TTL_MS)
    /\ [][\A id \in Users, c \in ConvIds :
            setTyping(id, c, FALSE) =>
               /\ outcome'.ok
               /\ \A other \in Users :
                     getAuthUserId(id) \notin TypersSeenBy(other, c)']_vars

\* In the group, user 1's indicator is older than TYPING_TTL_MS while user
\* 2's is fresh: user 3 is told that user 2 types, and only that.
C14_Witness ==
    /\ TypingOf(1, 2) # None /\ TypingOf(2, 2) # None
    /\ now - typing[TypingOf(1, 2)].updatedAt = TYPING_TTL_MS + 1
    /\ now - typing[TypingOf(2, 2)].updatedAt = 1
    /\ TypersSeenBy(3, 2) = {2}

\* the membership rows of a conversation
RowsOf(c) == { i \in DOMAIN members : members[i].conversationId = c }

\* C15: in every state reached by createGroup and leaveConversation calls,
\* every group conversation that has a membership row has a membership row
\* with role admin.
C15_GroupHasAdmin ==
    \A c \in DOMAIN conversations :
        (conversations[c].type = "group" /\ RowsOf(c) # {}) =>
           \E i \in RowsOf(c) : members[i].role = "admin"

\* The creator of a group of three has left it: the member that joined next
\* is admin now, and the third is not.
C15_Witness ==
    /\ outcome = [op |-> "leaveConversation", ok |-> TRUE]
    /\ \E c \in DOMAIN conversations :
          /\ conversations[c].type = "group"
          /\ conversations[c].createdBy \notin { members[i].userId : i \in RowsOf(c) }
          /\ Cardinality(RowsOf(c)) = 2
          /\ members[Min(RowsOf(c))].role = "admin"
          /\ \E i \in RowsOf(c) : members[i].role = "member"

\* C16: createGroup fails and creates nothing when the trimmed name is empty or
\* when memberIds and the caller are fewer than 2 distinct users; otherwise it
\* creates one group conversation and exactly one membership row per distinct
\* user, the caller's with role admin, every other with role member, all with
\* unreadCount 0.
C16_CreateGroup ==
    [][\A u \in Users, a \in GroupArgs :
          createGroup(u, a[1], a[2]) =>
             LET distinct == {u} \cup Range(a[2])
                 c == Len(conversations) + 1
                 rows == { i \in DOMAIN members' : members'[i].conversationId = c }
             IN IF Trim(a[1]) = <<>> \/ Cardinality(distinct) < 2
                THEN /\ ~outcome'.ok
                     /\ UNCHANGED <<conversations, members>>
                ELSE /\ outcome'.ok
                     /\ Len(conversations') = c
                     /\ SubSeq(conversations', 1, c - 1) = conversations
                     /\ conversations'[c].type = "group"
                     /\ SubSeq(members', 1, Len(members)) = members
                     /\ Len(members') = Len(members) + Cardinality(distinct)
                     /\ { members'[i].userId : i \in rows } = distinct
                     /\ Cardinality(rows) = Cardinality(distinct)
                     /\ \A i \in rows :
                           /\ members'[i].unreadCount = 0
                           /\ members'[i].role =
                                 IF members'[i].userId = u THEN "admin" ELSE "member"]_vars

\* User 2 has created a group with user 3 under a padded name: the group has
\* the trimmed name and two membership rows.
C16_Witness ==
    /\ outcome = [op |-> "createGroup", ok |-> TRUE]
    /\ \E c \in DOMAIN conversations :
          /\ conversations[c].type = "group"
          /\ conversations[c].participantIds = <<2, 3>>
          /\ conversations[c].name = <<"g">>
          /\ Cardinality(RowsOf(c)) = 2

\* C19: in every state reached by getOrCreateConversation, createGroup and
\* leaveConversation calls there are never two conversationMembers rows for
\* one (conversationId, userId) pair, and a user is among the participants of
\* a conversation exactly when one such row exists.
C19_OneRowPerMember ==
    \A c \in DOMAIN conversations, u \in Users :
        LET rows == { i \in RowsOf(c) : members[i].userId = u }
        IN /\ Cardinality(rows) <= 1
           /\ Includes(conversations[c].participantIds, u) <=> Cardinality(rows) = 1

\* A user has left a group of two, which keeps one participant and one
\* membership row, while a dm exists as well.
C19_Witness ==
    /\ outcome = [op |-> "leaveConversation", ok |-> TRUE]
    /\ \E c, d \in DOMAIN conversations :
          /\ conversations[c].type = "group"
          /\ Len(conversations[c].participantIds) = 1
          /\ Cardinality(RowsOf(c)) = 1
          /\ conversations[d].type = "dm"
          /\ Cardinality(RowsOf(d)) = 2

\* C18: in every reachable state there is at most one presence row per user,
\* after any interleaving of setPresence calls (two overlapping first
\* heartbeats of one user included) and first syncs by upsertUser.
C18_OnePresencePerUser ==
    \A u \in Users :
        Cardinality({ i \in DOMAIN presence : presence[i].userId = u }) <= 1

\* Two first heartbeats of one user overlapped: one has inserted the row
\* while the other, which read that there was none, has yet to commit; and a
\* second user has been synced with its bootstrap row.
C18_Witness ==
    /\ Len(users) = 2
    /\ PresenceOf(presence, 2) # None
    /\ \E call \in heartbeats :
          /\ call.seen = None
          /\ PresenceOf(presence, call.userId) # None

\* C17: every mutation and every query called with an identity that resolves
\* to no user row is rejected with an authentication error, writes nothing and
\* returns no data.  (Stated for the calls of the presence, typing and user
\* modules, whose identity is an argument here.)
C17_UnauthenticatedRejected ==
    /\ [](/\ \A c \in ConvIds : getTypingUsers(None, c) = Thrown
          /\ getMyPresence(None) = Thrown
          /\ searchUsers(None) = Thrown
          /\ \A u \in Users :
                /\ getPresence(u) = Thrown
                /\ batchGetPresence(<<u>>) = Thrown)
    /\ [][/\ \A s \in Statuses :
              setPresence(None, s) => (~outcome'.ok /\ UNCHANGED presence)
          /\ \A c \in ConvIds, b \in BOOLEAN :
              setTyping(None, c, b) => (~outcome'.ok /\ UNCHANGED typing)]_vars

\* the statuses a query result reports for user u, the rows naming their
\* user in the given field
StatusesIn(result, field, u) ==
    { result.rows[i].status :
        i \in { k \in DOMAIN result.rows : result.rows[k][field] = u } }

\* C20: every query that exposes a user's presence status (getPresence,
\* batchGetPresence, getMyPresence, getOnlineUsers, listConversations for the
\* other participant of a dm, searchUsers) reports the status getEffectiveStatus
\* derives from the user's presence row, never the stored status of a row whose
\* heartbeat has expired.
C20_EffectiveStatusAtEveryRead ==
    \A u \in Users :
        PresenceOf(presence, u) \in DOMAIN presence =>
           LET row == presence[PresenceOf(presence, u)]
               effective == getEffectiveStatus(row.status, row.lastSeenAt)
           IN /\ StatusesIn(getPresence(u), "userId", u) = {effective}
              /\ StatusesIn(batchGetPresence(<<u>>), "userId", u) = {effective}
              /\ StatusesIn(getMyPresence(u), "userId", u) = {effective}
              /\ (u \in Range(getOnlineUsers.rows)) <=> (effective = "online")
              /\ \A v \in Users :
                    /\ StatusesIn(listConversations(v), "otherUserId", u) \subseteq {effective}
                    /\ StatusesIn(searchUsers(v), "_id", u) \subseteq {effective}

C22_UsersNeverDeleted ==
    [][/\ \A i \in DOMAIN users :
             i \in DOMAIN users' /\ users'[i].clerkId = users[i].clerkId
       /\ \A k \in ClerkArgs :
             deleteUser(k) =>
                /\ users' = users
                /\ \A i \in DOMAIN users :
                      (users[i].clerkId = k /\ PresenceOf(presence, i) \in DOMAIN presence) =>
                         /\ PresenceOf(presence', i) = PresenceOf(presence, i)
                         /\ presence'[PresenceOf(presence, i)].status = "offline"]_vars

\* The first user was online and has been deleted from Clerk: its row is still
\* there, its presence is offline as of now; the second user is untouched.
C22_Witness ==
    /\ outcome = [op |-> "deleteUser", ok |-> TRUE]
    /\ Len(users) = 2 /\ users[1].clerkId = 1
    /\ now = 1
    /\ \E i \in DOMAIN presence :
          presence[i] = [userId |-> 1, status |-> "offline", lastSeenAt |-> 1]
    /\ \E i \in DOMAIN presence : presence[i].userId = 2 /\ presence[i].lastSeenAt = 0

\* C23: the webhook route answers 200 to a user event only when the event's
\* upsertUser or deleteUser mutation was applied, and answers 500 when that
\* mutation failed.
C23_SuccessOnlyIfApplied ==
    [][\A event \in WebhookEvents, verified \in BOOLEAN, up \in BOOLEAN :
          (POST(event, verified, up) /\ event.type # "session.created") =>
             /\ response'.status = 200 =>
                   /\ verified /\ up /\ outcome'.ok
                   /\ IF event.type = "user.deleted"
                      THEN deleteUser(event.data.id)
                      ELSE upsertUser(extractUserFields(event.data))
             /\ (verified /\ event.data.id # None /\ ~up) =>
                   /\ response'.status = 500
                   /\ UNCHANGED <<users, presence>>]_vars

\* The event of a second user was answered 500 after the mutation was
\* rejected: the user has no row.
C23_Witness ==
    /\ response.status = 500
    /\ outcome = [op |-> "upsertUser", ok |-> FALSE]
    /\ Len(users) = 1
    /\ now = 1

\* C24: TYPING_TTL_MS is strictly greater than the client's stop delay and
\* than its heartbeat interval, so while the hook reports a burst of
\* keystrokes the typing row of the user is never older than TYPING_TTL_MS
\* and getTypingUsers returns the user to the other members.
C24_NeverDroppedMidBurst ==
    /\ TYPING_TTL_MS > TYPING_STOP_DELAY
    /\ TYPING_TTL_MS > TYPING_HEARTBEAT
    /\ typingHook.isTyping =>
          /\ TypingOf(TypingClient, TypingConversation) # None
          /\ now - typing[TypingOf(TypingClient, TypingConversation)].updatedAt
                <= TYPING_TTL_MS
          /\ \A other \in Users \ {TypingClient} :
                TypingClient \in TypersSeenBy(other, TypingConversation)

\* Four seconds into a burst whose last keystroke is a second old: the row
\* was refreshed by the heartbeat two seconds ago and the next one is due.
C24_Witness ==
    /\ typingHook.isTyping
    /\ now = 4000
    /\ typingHook.heartbeatTimer = now
    /\ typingHook.stopTimer = now + 1000
    /\ typing[TypingOf(TypingClient, TypingConversation)].updatedAt = 2000

\* C25: while the usePresence hook is mounted and the tab is in the
\* foreground the client sends a heartbeat every interval, so the user's
\* lastSeenAt is never older than PRESENCE_EXPIRY_MS.
C25_ForegroundKeptFresh ==
    (presenceHook.mounted /\ ~presenceHook.hidden) =>
       /\ PresenceOf(presence, PresenceClient) \in DOMAIN presence
       /\ now - presence[PresenceOf(presence, PresenceClient)].lastSeenAt
             <= PRESENCE_EXPIRY_MS

\* C26: when deleteMessage deletes the message that is the conversation's
\* lastMessageId, lastMessageText becomes the marker "Message deleted" and
\* lastMessageId, lastMessageTime and lastMessageSenderId stay as they are;
\* deleting any other message leaves the snapshot unchanged.
C26_DeletedSnapshot ==
    [][\A u \in Users, m \in MsgIds :
          (deleteMessage(u, m) /\ outcome'.ok) =>
             LET c == messages[m].conversationId
             IN IF conversations[c].lastMessageId = m
                THEN /\ conversations'[c].lastMessageText = DELETED_MARKER
                     /\ conversations'[c].lastMessageId = m
                     /\ conversations'[c].lastMessageTime = conversations[c].lastMessageTime
                     /\ conversations'[c].lastMessageSenderId =
                           conversations[c].lastMessageSenderId
                     /\ \A d \in DOMAIN conversations \ {c} :
                           conversations'[d] = conversations[d]
                     /\ DOMAIN conversations' = DOMAIN conversations
                ELSE conversations' = conversations]_vars

\* Two messages of one conversation: the second, its last message, has been
\* deleted and the snapshot shows the marker; then the first was deleted too,
\* later, and the snapshot kept the id, the time and the sender of the second.
C26_Witness ==
    /\ Len(messages) = 2
    /\ messages[1].conversationId = messages[2].conversationId
    /\ messages[1].deleted /\ messages[2].deleted
    /\ messages[1].deletedAt > messages[2].deletedAt
    /\ messages[1].senderId # messages[2].senderId
    /\ LET c == conversations[messages[2].conversationId]
       IN /\ c.lastMessageId = 2
          /\ c.lastMessageText = DELETED_MARKER
          /\ c.lastMessageSenderId = messages[2].senderId

\* C27: getReactions for a message and a viewer returns exactly one entry per
\* emoji that has a row, whose count is the number of rows of that emoji,
\* whose userIds are exactly the reacting users, and whose selfReacted is true
\* if and only if the viewer is one of them, in non-increasing order of count.
C27_ReactionsGrouped ==
    \A m \in DOMAIN messages, viewer \in Users :
        LET view == getReactions(m, viewer)
            RowsFor(e) == { i \in DOMAIN reactions :
                              reactions[i].messageId = m /\ reactions[i].emoji = e }
        IN /\ \A e \in Emojis :
                 Cardinality({ k \in DOMAIN view : view[k].emoji = e })
                    = IF RowsFor(e) # {} THEN 1 ELSE 0
           /\ \A k \in DOMAIN view :
                 /\ view[k].emoji \in Emojis
                 /\ view[k].count = Cardinality(RowsFor(view[k].emoji))
                 /\ Len(view[k].userIds) = view[k].count
                 /\ Range(view[k].userIds) =
                       { reactions[i].userId : i \in RowsFor(view[k].emoji) }
                 /\ view[k].selfReacted <=> viewer \in Range(view[k].userIds)
           /\ \A j, k \in DOMAIN view : j < k => view[j].count >= view[k].count

\* Message 1 got one heart and then two thumbs: the thumbs come first, and
\* user 1 sees its own reaction among the thumbs and not among the hearts.
C27_Witness ==
    /\ Len(messages) >= 1
    /\ Len(reactions) = 3
    /\ reactions[1].emoji = "heart" /\ reactions[1].messageId = 1
    /\ getReactions(1, 1) =
          << [emoji |-> "up", count |-> 2, userIds |-> <<1, 2>>, selfReacted |-> TRUE],
             [emoji |-> "heart", count |-> 1, userIds |-> <<3>>, selfReacted |-> FALSE] >>

\* C28: getOrCreateConversation only ever returns the id of a conversation of
\* type dm, whatever groups exist, a group of exactly the caller and the other
\* user included.
C28_ReturnsOnlyDm ==
    \A p \in Pairs : \A c \in returned[p] :
        /\ c \in DOMAIN conversations
        /\ conversations[c].type = "dm"

\* the messages a step has added to a conversation that a user did not send
AddedFor(userId, conversationId) ==
    Cardinality({ m \in DOMAIN messages' \ DOMAIN messages :
                    /\ messages'[m].conversationId = conversationId
                    /\ messages'[m].senderId # userId })

\* C29: each member's unreadCount is the number of messages that other members
\* have sent into the conversation since the member's last markConversationRead
\* (or since the row was created), also when members send concurrently: every
\* step either is that member's markConversationRead and leaves 0, or adds to
\* the counter exactly the messages of others that the step has sent; so the
\* counter never decreases between two markConversationRead calls.
C29_UnreadCountsMessages ==
    /\ [](\A i \in DOMAIN members :
            Len(messages) = 0 => members[i].unreadCount = 0)
    /\ [][/\ DOMAIN members' = DOMAIN members
          /\ \A i \in DOMAIN members :
                \/ /\ \E r \in ReadArgs :
                         markConversationRead(members[i].userId,
                                              members[i].conversationId, r)
                   /\ members'[i].unreadCount = 0
                \/ /\ members'[i].unreadCount =
                         members[i].unreadCount
                            + AddedFor(members[i].userId, members[i].conversationId)
                   /\ members'[i].unreadCount >= members[i].unreadCount]_vars

\* Users 1 and 2 sent into the group with calls that overlapped: the message
\* of user 1 is committed and user 3 has one unread message, while the call
\* of user 2, which read the counters before, has yet to commit.
C29_Witness ==
    /\ Len(messages) = 1 /\ messages[1].senderId = 1 /\ messages[1].conversationId = 2
    /\ \E call \in sending :
          /\ call.userId = 2 /\ call.conversationId = 2
          /\ call.seen # MemberRows(2)
          /\ \A i \in DOMAIN call.seen : call.seen[i].unreadCount = 0
    /\ \E i \in DOMAIN members :
          /\ members[i].userId = 3 /\ members[i].conversationId = 2
          /\ members[i].unreadCount = 1

\* C30: a presence record with stored status online or idle whose lastSeenAt
\* is PRESENCE_EXPIRY_MS or more in the past is read as offline; only a record
\* seen less than PRESENCE_EXPIRY_MS ago keeps its stored status.
C30_OfflineAtExpiry ==
    \A i \in DOMAIN presence :
        presence[i].status \in {"online", "idle"} =>
           getPresence(presence[i].userId).rows[1].status =
              IF now - presence[i].lastSeenAt >= PRESENCE_EXPIRY_MS
              THEN "offline"
              ELSE presence[i].status

\* C31: for every member and conversation, the unreadCount getConversationMeta
\* returns equals the unreadCount listConversations returns to the same
\* caller for that conversation.
C31_MetaAgreesWithList ==
    \A u \in Users : \A c \in DOMAIN conversations :
        MembershipOf(u, c) # None =>
           getConversationMeta(u, c).unreadCount = ListedUnreadCount(u, c)

\* the messages of a conversation, by their ids
MessagesOf(c) == { m \in DOMAIN messages : messages[m].conversationId = c }

\* C32: where a conversation has a message, its snapshot is a copy of the
\* most recently sent one: lastMessageId is its id, lastMessageSenderId its
\* sender, and lastMessageText its current text cut to SNAPSHOT_LEN characters
\* and an ellipsis, or the deletion marker when it is deleted.
C32_SnapshotIsLastMessage ==
    \A c \in DOMAIN conversations :
        MessagesOf(c) # {} =>
           LET last == CHOOSE m \in MessagesOf(c) : \A n \in MessagesOf(c) : n <= m
           IN /\ conversations[c].lastMessageId = last
              /\ conversations[c].lastMessageSenderId = messages[last].senderId
              /\ conversations[c].lastMessageText =
                    IF messages[last].deleted THEN DELETED_MARKER
                    ELSE SnapshotText(messages[last].text)

\* C33: a member's lastReadMessageId is a high-water mark: no step moves it
\* from a message back to a message of the conversation sent earlier.
C33_ReadCursorNeverBack ==
    [][\A i \in DOMAIN members :
          (i \in DOMAIN members' /\ members[i].lastReadMessageId # None) =>
             /\ members'[i].lastReadMessageId # None
             /\ members'[i].lastReadMessageId >= members[i].lastReadMessageId
             /\ messages[members'[i].lastReadMessageId].sentAt
                   >= messages[members[i].lastReadMessageId].sentAt]_vars

\* C34: in every state reached by createGroup and leaveConversation calls,
\* the participantIds of each group conversation is exactly the set of the
\* userIds that have a conversationMembers row for that conversation.
C34_GroupParticipantsAreMembers ==
    \A c \in DOMAIN conversations :
        conversations[c].type = "group" =>
           /\ Range(conversations[c].participantIds)
                 = { members[i].userId : i \in RowsOf(c) }
           /\ Len(conversations[c].participantIds) = Cardinality(RowsOf(c))

\* Of two groups of three, the creator of the second has left it: the group
\* lists the two members whose rows remain, the first group still lists three.
C34_Witness ==
    /\ outcome = [op |-> "leaveConversation", ok |-> TRUE]
    /\ Len(conversations) = 2
    /\ conversations[1].type = "group" /\ conversations[2].type = "group"
    /\ Len(conversations[1].participantIds) = 3 /\ Cardinality(RowsOf(1)) = 3
    /\ conversations[2].createdBy = 2
    /\ conversations[2].participantIds = <<1, 3>>
    /\ { members[i].userId : i \in RowsOf(2) } = {1, 3}

\* C35: in every reachable state every dm conversation has exactly two
\* conversationMembers rows, one for each of its two participantIds; a
\* leaveConversation on a dm conversation fails and removes no membership row.
C35_DmKeepsTwoRows ==
    /\ [](\A c \in DOMAIN conversations :
             conversations[c].type = "dm" =>
                /\ Len(conversations[c].participantIds) = 2
                /\ Cardinality(Range(conversations[c].participantIds)) = 2
                /\ Cardinality(RowsOf(c)) = 2
                /\ { members[i].userId : i \in RowsOf(c) }
                      = Range(conversations[c].participantIds))
    /\ [][\A u \in Users : \A c \in DOMAIN conversations :
             (conversations[c].type = "dm" /\ leaveConversation(u, c)) =>
                /\ outcome'.ok = FALSE
                /\ members' = members
                /\ conversations' = conversations]_vars

\* Both conversations are dms and a participant's leaveConversation has just
\* been rejected: each dm still has its two rows.
C35_Witness ==
    /\ outcome = [op |-> "leaveConversation", ok |-> FALSE]
    /\ Len(conversations) = MaxConvs
    /\ \A c \in DOMAIN conversations :
          conversations[c].type = "dm" /\ Cardinality(RowsOf(c)) = 2

\* C36: for every stored message that has a replyToId, the referenced message
\* exists and was created before it; no message replies to itself or to a
\* later message, so the reply links of a conversation contain no cycle.
C36_ReplyToEarlierMessage ==
    \A m \in DOMAIN messages :
        messages[m].replyToId # None =>
           /\ messages[m].replyToId \in DOMAIN messages
           /\ messages[m].replyToId < m
           /\ messages[messages[m].replyToId].sentAt <= messages[m].sentAt

\* C37: in every reachable state, if the lastMessageId of a conversation
\* refers to a deleted message then its lastMessageText, which
\* listConversations returns, is the deletion marker and not a text that the
\* message has or that a send or an edit could have given it.
C37_TombstoneSnapshotScrubbed ==
    \A c \in DOMAIN conversations :
        LET last == conversations[c].lastMessageId
        IN (last # None /\ messages[last].deleted) =>
              /\ ListedLastMessageText(c) = DELETED_MARKER
              /\ ListedLastMessageText(c) # SnapshotText(messages[last].text)
              /\ \A t \in Texts \cup EditTexts :
                    ListedLastMessageText(c) # SnapshotText(Trim(t))

\* The last message of the group was edited and then deleted: its row keeps
\* the edited text and the snapshot of the group shows the marker.
C37_Witness ==
    /\ conversations[2].lastMessageId # None
    /\ LET last == messages[conversations[2].lastMessageId]
       IN /\ last.deleted
          /\ last.edited
          /\ last.text = <<"b">>
    /\ ListedLastMessageText(2) = DELETED_MARKER

\* C38: listMessages returns the messages of a conversation only to callers
\* who hold a membership row in it; a signed-in user who is not a member
\* obtains no message of it.
C38_ListOnlyForMembers ==
    \A u \in Users : \A c \in DOMAIN conversations :
        MembershipOf(u, c) = None => listMessagesAs(u, c) = <<>>

\* C39: after leaveConversation by user U from a group, U has no membership
\* row in that group; from then on U stays without one, every sendMessage by
\* U into the group fails and stores nothing, and a message sent there by
\* another user changes no membership row of U.
C39_LeaverIsOut ==
    [][\A u \in Users : \A c \in DOMAIN conversations :
          /\ (leaveConversation(u, c) /\ outcome'.ok) => MembershipOf(u, c)' = None
          /\ (conversations[c].type = "group" /\ MembershipOf(u, c) = None) =>
                /\ MembershipOf(u, c)' = None
                /\ sendMessage(u, c, <<"a">>, None) =>
                      /\ outcome'.ok = FALSE
                      /\ messages' = messages
                      /\ conversations' = conversations
                      /\ members' = members
                /\ \A s \in Users \ {u} :
                      sendMessage(s, c, <<"a">>, None) =>
                         /\ DOMAIN members' = DOMAIN members
                         /\ \A i \in DOMAIN members :
                               members[i].userId = u => members'[i] = members[i]]_vars

\* User 2 has left the group and a sendMessage of user 2 into it has just
\* failed; user 1 has sent a message there that user 3 has not read, and
\* the dm row of user 2 has no unread message.
C39_Witness ==
    /\ outcome = [op |-> "sendMessage", ok |-> FALSE]
    /\ MembershipOf(2, 2) = None
    /\ conversations[2].participantIds = <<1, 3>>
    /\ Len(messages) = 1
    /\ messages[1].conversationId = 2 /\ messages[1].senderId = 1
    /\ members[MembershipOf(3, 2)].unreadCount = 1
    /\ members[MembershipOf(2, 1)].unreadCount = 0

\* C40: deleteMessage is idempotent: a deleteMessage on a message that is
\* already deleted leaves that message, its deletedAt included, and the
\* snapshot of the conversation unchanged.
C40_DeleteIdempotent ==
    [][\A u \in Users, m \in MsgIds :
          (m \in DOMAIN messages /\ messages[m].deleted /\ deleteMessage(u, m)) =>
             /\ messages'[m] = messages[m]
             /\ conversations' = conversations]_vars

=============================================================================
